---- MODULE Spec2Model ----
(***************************************************************************)
(* A model of the tbdd execution engine (package tbdd, type Lifecycle):    *)
(* the function returned by New/NewI replays the phases                    *)
(*   Arrange, AfterArrange, Given, AfterGiven, Describe, validation,       *)
(*   Act, AfterAct, Assert, AfterAssert                                    *)
(* once for the basis test case and once per variant yielded by Variants.  *)
(*                                                                         *)
(* Strings are sequences of one-character strings, so that concatenation   *)
(* and the decimal rendering of the table index are computed, not assumed. *)
(* A test case value (type T) is the set of marks left on it by the        *)
(* callbacks that received a mutable view of it; T is a value type.        *)
(***************************************************************************)
EXTENDS Integers, Sequences, FiniteSets, TLC

\* ------------------------------------------------------------------ bounds

\* The largest table index handed to NewI.
MaxIndex == 12

\* The largest number of entries a Variants generator yields.
MaxVariants == 2

\* How many times the function returned by New/NewI is invoked.
MaxInvocations == 2

\* ----------------------------------------------------------------- strings

EmptyStr == <<>>

Slash == <<"/">>

GivenWord == <<"g", "i", "v", "e", "n", " ">>

WhenWord == <<"w", "h", "e", "n", " ">>

ThenWord == <<"t", "h", "e", "n", " ">>

Digits == <<"0", "1", "2", "3", "4", "5", "6", "7", "8", "9">>

RECURSIVE ItoaSwapped(_)
\* A decimal rendering that emits the digits least significant first.
ItoaSwapped(n) ==
    IF n < 10 THEN <<Digits[n + 1]>>
    ELSE <<Digits[(n % 10) + 1]>> \o ItoaSwapped(n \div 10)

RECURSIVE Itoa(_)
\* strconv.Itoa on a non-negative int: the decimal digits, most significant first.
Itoa(n) ==
    IF n < 10 THEN <<Digits[n + 1]>>
    ELSE Itoa(n \div 10) \o <<Digits[(n % 10) + 1]>>

\* A prefix composition that forgets the trailing separator.
ComposePrefixNoSep(tableTestIndex, prefix) ==
    IF tableTestIndex >= 0
    THEN IF prefix = EmptyStr THEN Itoa(tableTestIndex)
         ELSE Itoa(tableTestIndex) \o Slash \o prefix
    ELSE prefix

\* A prefix composition that drops the ordinal when a prefix is supplied.
ComposePrefixKindOnly(tableTestIndex, prefix) ==
    LET p == IF tableTestIndex >= 0 /\ prefix = EmptyStr
             THEN Itoa(tableTestIndex)
             ELSE prefix
    IN  IF p # EmptyStr THEN p \o Slash ELSE p

\* The composed prefix of one replay (newI, the head of the closure f).
ComposePrefix(tableTestIndex, prefix) ==
    LET p == IF tableTestIndex >= 0
             THEN IF prefix = EmptyStr THEN Itoa(tableTestIndex)
                  ELSE Itoa(tableTestIndex) \o Slash \o prefix
             ELSE prefix
    IN  IF p # EmptyStr THEN p \o Slash ELSE p

\* A when-scope name that always carries the prefix.
WhenStrAlwaysPrefixed(prefix, hasGivenPhase, when) ==
    prefix \o WhenWord \o when

\* The name of the when-scope.
WhenStr(prefix, hasGivenPhase, when) ==
    IF prefix # EmptyStr /\ ~hasGivenPhase
    THEN prefix \o WhenWord \o when
    ELSE WhenWord \o when

\* The name of the given-scope.
GivenStr(prefix, given) == prefix \o GivenWord \o given

\* The name of the then-scope.
ThenStr(then) == ThenWord \o then

\* ------------------------------------------------- the user's callbacks

\* Marks a callback leaves on the test case (or result) it was given a view of.
Marks == {"clone", "arrange", "given", "afterArrange", "afterGiven",
          "afterAct", "afterAssert", "variant"}

\* A hook slot: nil, installed and doing nothing, installed and using its views.
HookModes == {"nil", "noop", "active"}

NoHooks == [AfterArrange |-> "nil", AfterGiven |-> "nil",
            AfterAct |-> "nil", AfterAssert |-> "nil"]

AllHooks(mode) == [AfterArrange |-> mode, AfterGiven |-> mode,
                   AfterAct |-> mode, AfterAssert |-> mode]

\* The Arrange slot: nil, or a function described by what it returns and sets.
\*   label     which Given string it returns: the seed it was handed, "" or "G"
\*   nilGiven  whether the setup callback it returns is nil
\*   configure whether it sets When, Then, Describe, Act, Assert and the hooks
\*             through its references (as commonArrange of the self-test
\*             sets Describe, Act and Assert)
NoArrange == [present |-> FALSE, label |-> "seed", nilGiven |-> TRUE,
              configure |-> FALSE]

ArrangeFn(label, nilGiven, configure) ==
    [present |-> TRUE, label |-> label, nilGiven |-> nilGiven,
     configure |-> configure]

\* The result of Act before Act ran (the zero value of R).
NoResult == [set |-> FALSE, from |-> {}, marks |-> {}]

\* What a configured Arrange does with its Arrange[T, R] argument: it marks
\* the test case, optionally fills the slots it has references to, and
\* returns the Given string and the setup callback.
ArrangeCall(wb, tcv) ==
    LET a == wb.Arrange
        wb1 == IF a.configure
               THEN [wb EXCEPT !.When = <<"w">>, !.Then = <<"t">>,
                               !.Describe = "fill",
                               !.Act = TRUE, !.AssertFn = TRUE,
                               !.hooks = AllHooks("active")]
               ELSE wb
    IN  [wb |-> wb1,
         tc |-> tcv \cup {"arrange"},
         label |-> CASE a.label = "seed" -> wb.Given
                     [] a.label = "empty" -> EmptyStr
                     [] OTHER -> <<"G">>,
         given |-> ~a.nilGiven]

\* What a Describe function returns for the When and Then it is handed.
\*   echo  returns them unchanged
\*   erase returns an empty When
\*   fill  supplies a Then when none is set (descTC of the self-test)
DescribeCall(mode, when, then) ==
    CASE mode = "echo" -> [When |-> when, Then |-> then]
      [] mode = "erase" -> [When |-> EmptyStr, Then |-> then]
      [] OTHER -> [When |-> when,
                   Then |-> IF then = EmptyStr THEN <<"d">> ELSE then]

\* An engine that marks the test case itself where a hook is absent.
HookTCDefaultOnNil(mode, tcv, mark) ==
    IF mode \in {"active", "nil"} THEN tcv \cup {mark} ELSE tcv

\* What an installed hook does to the test case it has a pointer to.
HookTC(mode, tcv, mark) == IF mode = "active" THEN tcv \cup {mark} ELSE tcv

\* What an installed AfterAct/AfterAssert hook does to the result.
HookResult(mode, res, mark) ==
    IF mode = "active" THEN [res EXCEPT !.marks = @ \cup {mark}] ELSE res

\* What an installed AfterGiven hook does to the labels it has pointers to.
HookLabels(mode, wb) ==
    IF mode = "active"
    THEN [wb EXCEPT !.Given = <<"h">>, !.When = <<"v">>]
    ELSE wb

\* Act maps the test case it receives to a result that remembers it.
ActCall(tcv) == [set |-> TRUE, from |-> tcv, marks |-> {}]

\* A CloneTC that returns its argument itself, unmarked.
CloneCallIdentity(tcv) == tcv

\* CloneTC: the copy is told apart from the original by its mark.
CloneCall(tcv) == tcv \cup {"clone"}

\* The TC of a variant, which the generator derives from the seed it is given.
VariantTC(s) == s \cup {"variant"}

\* ------------------------------------------------------- the descriptor

\* One entry yielded by a Variants generator (TestVariant[T]); its TC is
\* derived from the generator's seed when the entry is yielded.
Variant(kind, skipTC, skipCloneTC) ==
    [Kind |-> kind, SkipTC |-> skipTC, SkipCloneTC |-> skipCloneTC]

\* The Variants slot: nil, or a generator yielding the entries of seq in order.
NoVariants == [present |-> FALSE, seq |-> <<>>]

VariantsFn(seq) == [present |-> TRUE, seq |-> seq]

\* The lifecycle struct. A function slot is described by whether it is set
\* (Act, Assert, CloneTC, runHook) or by what the function does; the Assert
\* slot is the field AssertFn.
Lifecycle(g, w, t, hooks, arrange, describe, act, assertFn, clone, variants, getT, runHook) ==
    [Given |-> g, When |-> w, Then |-> t, hooks |-> hooks, TC |-> {},
     CloneTC |-> clone, Variants |-> variants, Arrange |-> arrange,
     Describe |-> describe, Act |-> act, AssertFn |-> assertFn,
     getT |-> getT, runHook |-> runHook]

\* ------------------------------------------------------- the host context

\* The contexts a testingT value can be: a live *testing.T, the self-test
\* double mT, and the nil *testing.T the double hands to the scopes it runs.
Hosts == {"T", "mT"}

\* The value defaultGetT panics with.
PanicNotT == "not a real *testing.T instance"

\* The runtime error of calling Helper on the nil *testing.T the self-test
\* double hands to the scopes it runs.
PanicNilT == "runtime error: invalid memory address or nil pointer dereference"

\* No panic, and no builder call.
NoPanic == ""

NoCall == [fn |-> "none"]

\* The panic value after a step that ends in next: the cause when the step
\* panicked, else what it was.
PanicValue(next, cause, old) == IF next = "panicked" THEN cause ELSE old

\* A translation that never panics.
GetTPanicsNever(getT, ctx) == FALSE

\* defaultGetT panics unless the context is backed by a non-nil *testing.T;
\* nilGetT (the self-test substitute) returns nil for every context.
GetTPanics(getT, ctx) == getT = "default" /\ ctx # "T"

\* What a testingT value can hold: a live *testing.T, the self-test double,
\* a nil *testing.T, nothing.
Contexts == {"T", "mT", "nilT", "nil"}

\* The context a scope function runs with: the caller's at depth 0, and inside
\* a scope what the host's Run hands to it.
CtxAt(h, stack) == IF stack = <<>> THEN h ELSE IF h = "T" THEN "T" ELSE "nilT"

\* ----------------------------------------------------------------- messages

ErrWhen == "When string of BDD test must not be empty"

ErrThen == "Then string of BDD test must not be empty"

ErrAct == "Act function of BDD test is not defined"

ErrAssert == "Assert function of BDD test is not defined"

FmtGate == "when+then not run: BDD test not configured properly (prefix = \"%s\")"

FmtNilGiven == "test setup not run: Arrange returned a nil given function (prefix = \"%s\")"

FmtEmptyGiven == "test setup not run: Arrange function returned an empty Given string (prefix = \"%s\")"

FmtNoKind == "BDD configuration error: test case variant at index %d has no Kind detail"

\* The arguments of a Fatalf call ([]any): a string or an int each.
StrArg(s) == [kind |-> "string", s |-> s, n |-> 0]

IntArg(n) == [kind |-> "int", s |-> EmptyStr, n |-> n]

FatalfCall(format, args) == [format |-> format, args |-> args]

\* -------------------------------------------------------------- the state

VARIABLES
    b,              \* the lifecycle the closures of newI captured (its receiver)
    tableTestIndex, \* the ordinal passed to newI (-1 from New)
    host,           \* the context the returned function is invoked with
    pc,             \* where the invocation stands
    invocations,    \* how many invocations have returned
    tc,             \* the test case captured at the start of the invocation
    seed,           \* the test case the Variants generator was called with
    ftc,            \* the tc of the replay under way (parameter of f)
    wb,             \* the replay's working copy of the lifecycle (b := b)
    prefix,         \* the prefix of the replay under way
    hasGivenPhase,  \* decided when the replay is built
    arrangeRan,     \* local of the arrange wrapper
    given,          \* whether Arrange returned a non-nil setup callback
    givenRan,       \* local of the given scope
    result,         \* what Act returned
    scopes,         \* the names of the scopes open, outermost first
    i,              \* the index of the variant walk
    pos,            \* how many entries the Variants generator has yielded
    rep,            \* the replay under way: 0 the basis, k the k-th entry yielded
    runCalls,       \* the names handed to the host's Run, in order
    hookCalls,      \* the names handed to runHook, in order
    fatalfCalls,    \* the hard failures the host received, in order
    errorCalls,     \* the soft failures the host received, in order
    trace,          \* what happened in the invocation under way, in order
    prevTrace,      \* the trace of the invocation before it
    built,          \* the builder call the lifecycle comes from, if any
    panicValue      \* the value of the panic that ended the run, if any

vars == <<b, tableTestIndex, host, pc, invocations, tc, seed, ftc, wb, prefix,
          hasGivenPhase, arrangeRan, given, givenRan, result, scopes, i, pos,
          rep, runCalls, hookCalls, fatalfCalls, errorCalls, trace, prevTrace,
          built, panicValue>>

\* ------------------------------------------------------------ the history

\* One entry of the trace: which replay, what happened, at which scope depth,
\* and what the callback or the host was handed.
Event(r, ev, depth) ==
    [rep |-> r, pos |-> pos, ev |-> ev, depth |-> depth, name |-> EmptyStr,
     msg |-> "",
     tcIn |-> {}, tcOut |-> {}, resIn |-> NoResult, resOut |-> NoResult,
     flags |-> <<>>, labels |-> <<>>, n |-> -1]

\* The entry of a hook, when the hook is installed.
HookEvent(mode, e) == IF mode # "nil" THEN <<e>> ELSE <<>>

\* ---------------------------------------------------- pieces of the engine

\* An arrange wrapper that reports a nil setup callback without dispatching
\* AfterArrange.
AfterArrangeOnNilGivenSkipped(mode, e) == <<>>

\* The AfterArrange dispatch that precedes the report of a nil setup callback.
AfterArrangeOnNilGiven(mode, e) == HookEvent(mode, e)

\* A replay that shares the captured lifecycle instead of copying it: what
\* the replay writes is written to the captured lifecycle.
ReceiverShared(d, w) ==
    [d EXCEPT !.Given = w.Given, !.When = w.When, !.Then = w.Then,
              !.hooks = w.hooks, !.Arrange = w.Arrange,
              !.Describe = w.Describe, !.Act = w.Act, !.AssertFn = w.AssertFn]

\* The captured lifecycle after a step of a replay that has written w to its
\* working copy: f works on its own copy (b := b), so it is left alone.
Receiver(d, w) == d

\* The working copy a replay starts from.
WorkingCopy(d) ==
    [Given |-> d.Given, When |-> d.When, Then |-> d.Then, hooks |-> d.hooks,
     Arrange |-> d.Arrange, Describe |-> d.Describe, Act |-> d.Act,
     AssertFn |-> d.AssertFn]

\* A variant's replay that goes on from the working copy of the replay
\* before it.
ReplayStartCarried(d, w, r) == IF r = 0 THEN WorkingCopy(d) ELSE w

\* What replay r starts from: f copies the captured lifecycle (b := b) each
\* time it is called, whatever the replay before left in its own copy w.
ReplayStart(d, w, r) == WorkingCopy(d)

\* A callback handed a copy: what it writes is lost when it returns.
ThroughCopy(held, written) == held

\* A callback or hook is handed a pointer to the replay's tc (or result):
\* what it has written there is what the replay holds when it returns.
ThroughPointer(held, written) == written

\* A given phase decided by the Arrange slot alone.
HasGivenPhaseArrangeOnly(w) == w.Arrange.present

\* Whether the replay has a given phase.
HasGivenPhase(w) == w.Arrange.present \/ w.Given # EmptyStr

\* A gate that stops at the first violated check.
GateErrorsFirstOnly(w) ==
    IF w.When = EmptyStr THEN <<ErrWhen>>
    ELSE IF w.Then = EmptyStr THEN <<ErrThen>>
    ELSE IF ~w.Act THEN <<ErrAct>>
    ELSE IF ~w.AssertFn THEN <<ErrAssert>>
    ELSE <<>>

\* The soft failures of the validation gate, in the order it records them.
GateErrors(w) ==
    (IF w.When = EmptyStr THEN <<ErrWhen>> ELSE <<>>)
    \o (IF w.Then = EmptyStr THEN <<ErrThen>> ELSE <<>>)
    \o (IF ~w.Act THEN <<ErrAct>> ELSE <<>>)
    \o (IF ~w.AssertFn THEN <<ErrAssert>> ELSE <<>>)

\* A gate that issues its hard failure for a missing label only.
GateFailsOnLabelsOnly(w) == w.When = EmptyStr \/ w.Then = EmptyStr

\* Whether the validation gate issues its hard failure.
GateFails(w) ==
    w.When = EmptyStr \/ w.Then = EmptyStr \/ ~w.Act \/ ~w.AssertFn

\* An engine that goes on to the next phase when Fatalf returns.
FatalfThenFallThrough(h, stack, next) ==
    IF h = "T" THEN (IF stack = <<>> THEN "aborted" ELSE "unwind") ELSE next

\* A host whose hard failure ends the whole invocation wherever it is raised.
FatalfThenAbortsAll(h, stack, next) ==
    IF h = "T" THEN "aborted" ELSE "unwind"

\* An engine whose gate goes on to the when scope when Fatalf returns.
FatalfThenGateGoesOn(h, stack, next) ==
    IF h = "T" THEN (IF stack = <<>> THEN "aborted" ELSE "unwind")
    ELSE IF next = "when" THEN next ELSE "unwind"

\* A live host whose hard failure ends the replay only, as the double's does.
FatalfThenReplayOnly(h, stack, next) == "unwind"

\* An engine that goes on to the given scope after reporting a nil setup
\* callback, whatever the host does.
FatalfThenNilGivenGoesOn(h, stack, next) ==
    IF next = "afterArrange" THEN "given"
    ELSE IF h = "T" /\ stack = <<>> THEN "aborted" ELSE "unwind"

\* Where a replay stands after the engine's Fatalf and the return that
\* follows it: a live host ends the goroutine of the scope the failure was
\* raised in (the whole invocation when that is the caller's own scope); the
\* self-test double returns and the engine returns from the replay.
FatalfThen(h, stack, next) ==
    IF h = "T" /\ stack = <<>> THEN "aborted" ELSE "unwind"

\* An engine that hands Arrange copies of the slots: only the label Arrange
\* returns reaches the replay.
ArrangedLabelOnly(w, r) == [w EXCEPT !.Given = r.label]

\* The working copy after Arrange returned r: what Arrange wrote through its
\* references to the hooks, Describe, Act, Assert, When and Then, and the
\* Given label it returned.
Arranged(w, r) == [r.wb EXCEPT !.Given = r.label]

\* A replay that keeps a label when Describe returns an empty one.
DescribedKeepsNonEmpty(w, r) ==
    [w EXCEPT !.When = IF r.When = EmptyStr THEN @ ELSE r.When,
              !.Then = IF r.Then = EmptyStr THEN @ ELSE r.Then]

\* The working copy after Describe returned r: its When and Then are r's.
Described(w, r) == [w EXCEPT !.When = r.When, !.Then = r.Then]

\* A replay that validates before it describes.
NextPhaseGateFirst(p) ==
    CASE p = "arrange" -> "afterArrange"
      [] p = "afterArrange" -> "given"
      [] p = "given" -> "afterGiven"
      [] p = "afterGiven" -> "gate"
      [] p = "gate" -> "describe"
      [] p = "describe" -> "when"
      [] p = "when" -> "afterAct"
      [] p = "afterAct" -> "then"
      [] p = "then" -> "afterAssert"
      [] OTHER -> "unwind"

\* A replay that describes before it dispatches AfterGiven.
NextPhaseDescribeFirst(p) ==
    CASE p = "arrange" -> "afterArrange"
      [] p = "afterArrange" -> "given"
      [] p = "given" -> "describe"
      [] p = "describe" -> "afterGiven"
      [] p = "afterGiven" -> "gate"
      [] p = "gate" -> "when"
      [] p = "when" -> "afterAct"
      [] p = "afterAct" -> "then"
      [] p = "then" -> "afterAssert"
      [] OTHER -> "unwind"

\* A replay that opens the then scope before the when scope.
NextPhaseAssertFirst(p) ==
    CASE p = "arrange" -> "afterArrange"
      [] p = "afterArrange" -> "given"
      [] p = "given" -> "afterGiven"
      [] p = "afterGiven" -> "describe"
      [] p = "describe" -> "gate"
      [] p = "gate" -> "then"
      [] p = "then" -> "afterAssert"
      [] p = "afterAssert" -> "when"
      [] p = "when" -> "afterAct"
      [] OTHER -> "unwind"

\* The step that follows step p of a replay when p does not fail: the order
\* of the statements of the arrange wrapper, the given scope and test.
NextPhase(p) ==
    CASE p = "arrange" -> "afterArrange"
      [] p = "afterArrange" -> "given"
      [] p = "given" -> "afterGiven"
      [] p = "afterGiven" -> "describe"
      [] p = "describe" -> "gate"
      [] p = "gate" -> "when"
      [] p = "when" -> "afterAct"
      [] p = "afterAct" -> "then"
      [] p = "then" -> "afterAssert"
      [] OTHER -> "unwind"

\* An arrange wrapper that never finds the Given string empty.
EmptyGivenUnchecked(w) == FALSE

\* The empty-Given check of the arrange wrapper.
EmptyGiven(w) == w.Given = EmptyStr

\* A dispatch that reports whether the setup callback is set, not whether it
\* is nil.
AfterArrangeFlagsGivenSet(ran, givenSet, g) == <<ran, givenSet, g = EmptyStr>>

\* The flags of an AfterArrange dispatch in a replay with a given phase.
AfterArrangeFlags(ran, givenSet, g) == <<ran, ~givenSet, g = EmptyStr>>

\* ------------------------------------------------------------ the fan-out

\* The returned function is invoked: the test case is captured (tc := b.TC).
Invoke ==
    /\ pc = "idle"
    /\ invocations < MaxInvocations
    /\ tc' = b.TC
    /\ prevTrace' = trace
    /\ trace' = <<>>
    /\ runCalls' = <<>>
    /\ hookCalls' = <<>>
    /\ fatalfCalls' = <<>>
    /\ errorCalls' = <<>>
    /\ scopes' = <<>>
    /\ i' = -1
    /\ pos' = 0
    /\ rep' = 0
    /\ pc' = "base"
    /\ UNCHANGED <<b, tableTestIndex, host, invocations, seed, ftc, wb, prefix,
                   hasGivenPhase, arrangeRan, given, givenRan, result>>
    /\ panicValue' = PanicValue(pc', PanicNotT, panicValue)
    /\ UNCHANGED built

\* The basis replay is set up: its tc is the captured one, cloned when
\* CloneTC is set, and its prefix is empty.
BaseReplay ==
    /\ pc = "base"
    /\ ftc' = IF b.CloneTC THEN CloneCall(tc) ELSE tc
    /\ trace' = trace \o
           (IF b.CloneTC
            THEN <<[Event(0, "CloneTC", 0) EXCEPT
                       !.tcIn = tc, !.tcOut = CloneCall(tc)]>>
            ELSE <<>>)
    /\ prefix' = EmptyStr
    /\ rep' = 0
    /\ pc' = "build"
    /\ UNCHANGED <<b, tableTestIndex, host, invocations, tc, seed, wb,
                   hasGivenPhase, arrangeRan, given, givenRan, result, scopes,
                   i, pos, runCalls, hookCalls, fatalfCalls, errorCalls,
                   prevTrace>>
    /\ panicValue' = PanicValue(pc', PanicNotT, panicValue)
    /\ UNCHANGED built

\* f(t, tc, prefix): the replay's working copy, prefix and given phase; a
\* replay without a given phase dispatches AfterArrange and AfterGiven here.
Build ==
    /\ pc = "build"
    /\ LET w0 == ReplayStart(b, wb, rep)
           hgp == HasGivenPhase(w0)
           tc1 == HookTC(w0.hooks.AfterArrange, ftc, "afterArrange")
           tc2 == HookTC(w0.hooks.AfterGiven, tc1, "afterGiven")
           w1 == HookLabels(w0.hooks.AfterGiven, w0)
           start == [Event(rep, "Replay", 0) EXCEPT
                        !.name = ComposePrefix(tableTestIndex, prefix),
                        !.tcIn = ftc, !.tcOut = ftc, !.flags = <<hgp>>]
           aa == [Event(rep, "AfterArrange", 0) EXCEPT
                     !.tcIn = ftc, !.tcOut = tc1,
                     !.flags = <<FALSE, TRUE, TRUE>>]
           ag == [Event(rep, "AfterGiven", 0) EXCEPT
                     !.tcIn = tc1, !.tcOut = tc2, !.flags = <<FALSE>>,
                     !.labels = <<w1.Given, w1.When, w1.Then>>]
       IN  /\ prefix' = ComposePrefix(tableTestIndex, prefix)
           /\ hasGivenPhase' = hgp
           /\ arrangeRan' = FALSE
           /\ given' = FALSE
           /\ givenRan' = FALSE
           /\ result' = NoResult
           /\ IF hgp
              THEN /\ wb' = w0
                   /\ ftc' = ftc
                   /\ trace' = Append(trace, start)
                   /\ pc' = "arrange"
              ELSE IF GetTPanics(b.getT, host)
              THEN /\ wb' = w0
                   /\ ftc' = ftc
                   /\ trace' = Append(trace, start)
                   /\ pc' = "panicked"
              ELSE /\ wb' = w1
                   /\ ftc' = ThroughPointer(ftc, tc2)
                   /\ trace' = trace \o <<start>>
                          \o HookEvent(w0.hooks.AfterArrange, aa)
                          \o HookEvent(w0.hooks.AfterGiven, ag)
                   /\ pc' = NextPhase("afterGiven")
    /\ b' = Receiver(b, wb')
    /\ UNCHANGED <<tableTestIndex, host, invocations, tc, seed, scopes, i, pos, rep,
                   runCalls, hookCalls, fatalfCalls, errorCalls, prevTrace>>
    /\ panicValue' = PanicValue(pc', PanicNotT, panicValue)
    /\ UNCHANGED built

\* ------------------------------------------------------------- one replay

\* The arrange wrapper up to the nil check: Arrange is called when set; a nil
\* setup callback dispatches AfterArrange and is a hard failure.
Arrange ==
    /\ pc = "arrange"
    /\ IF ~wb.Arrange.present
       THEN /\ arrangeRan' = FALSE
            /\ given' = FALSE
            /\ pc' = NextPhase(pc)
            /\ UNCHANGED <<wb, ftc, trace, fatalfCalls>>
       ELSE IF GetTPanics(b.getT, host)
       THEN /\ arrangeRan' = TRUE
            /\ pc' = "panicked"
            /\ UNCHANGED <<wb, ftc, given, trace, fatalfCalls>>
       ELSE LET r == ArrangeCall(wb, ftc)
                w1 == Arranged(wb, r)
                tc1 == HookTC(w1.hooks.AfterArrange, r.tc, "afterArrange")
                call == [Event(rep, "Arrange", 0) EXCEPT
                            !.tcIn = ftc, !.tcOut = r.tc,
                            !.name = r.label, !.flags = <<r.given>>,
                            !.labels = <<wb.Given, wb.When, wb.Then>>]
                aa == [Event(rep, "AfterArrange", 0) EXCEPT
                          !.tcIn = r.tc, !.tcOut = tc1,
                          !.flags = AfterArrangeFlags(TRUE, FALSE, w1.Given)]
                fail == [Event(rep, "Fatalf", 0) EXCEPT
                            !.msg = FmtNilGiven, !.name = prefix]
            IN  /\ arrangeRan' = TRUE
                /\ given' = r.given
                /\ wb' = w1
                /\ IF r.given
                   THEN /\ ftc' = ThroughPointer(ftc, r.tc)
                        /\ trace' = Append(trace, call)
                        /\ pc' = NextPhase(pc)
                        /\ UNCHANGED fatalfCalls
                   ELSE /\ ftc' = ThroughPointer(ftc, tc1)
                        /\ trace' = trace \o <<call>>
                               \o AfterArrangeOnNilGiven(
                                      w1.hooks.AfterArrange, aa)
                               \o <<fail>>
                        /\ fatalfCalls' = Append(fatalfCalls,
                               FatalfCall(FmtNilGiven, <<StrArg(prefix)>>))
                        /\ pc' = FatalfThen(host, scopes, NextPhase(pc))
    /\ b' = Receiver(b, wb')
    /\ UNCHANGED <<tableTestIndex, host, invocations, tc, seed, prefix,
                   hasGivenPhase, givenRan, result, scopes, i, pos, rep, runCalls,
                   hookCalls, errorCalls, prevTrace>>
    /\ panicValue' = PanicValue(pc', PanicNotT, panicValue)
    /\ UNCHANGED built

\* The arrange wrapper after the nil check: AfterArrange is dispatched, and
\* an empty Given string is a hard failure.
AfterArrange ==
    /\ pc = "afterArrange"
    /\ IF GetTPanics(b.getT, host)
       THEN /\ pc' = "panicked"
            /\ UNCHANGED <<ftc, trace, fatalfCalls>>
       ELSE LET tc1 == HookTC(wb.hooks.AfterArrange, ftc, "afterArrange")
                aa == [Event(rep, "AfterArrange", 0) EXCEPT
                          !.tcIn = ftc, !.tcOut = tc1,
                          !.flags = AfterArrangeFlags(arrangeRan, given,
                                                      wb.Given)]
                fail == [Event(rep, "Fatalf", 0) EXCEPT
                            !.msg = FmtEmptyGiven, !.name = prefix]
            IN  /\ ftc' = ThroughPointer(ftc, tc1)
                /\ IF EmptyGiven(wb)
                   THEN /\ trace' = trace
                               \o HookEvent(wb.hooks.AfterArrange, aa)
                               \o <<fail>>
                        /\ fatalfCalls' = Append(fatalfCalls,
                               FatalfCall(FmtEmptyGiven, <<StrArg(prefix)>>))
                        /\ pc' = FatalfThen(host, scopes, NextPhase(pc))
                   ELSE /\ trace' = trace
                               \o HookEvent(wb.hooks.AfterArrange, aa)
                        /\ pc' = NextPhase(pc)
                        /\ UNCHANGED fatalfCalls
    /\ b' = Receiver(b, wb)
    /\ UNCHANGED <<tableTestIndex, host, invocations, tc, seed, wb, prefix,
                   hasGivenPhase, arrangeRan, given, givenRan, result, scopes,
                   i, pos, rep, runCalls, hookCalls, errorCalls, prevTrace>>
    /\ panicValue' = PanicValue(pc', PanicNotT, panicValue)
    /\ UNCHANGED built

\* The given scope is opened and the setup callback, when there is one, runs
\* in it. The self-test double hands a nil *testing.T to the scope function,
\* whose t.Helper() then panics.
GivenScope ==
    /\ pc = "given"
    /\ LET name == GivenStr(prefix, wb.Given)
           tc1 == IF given THEN ftc \cup {"given"} ELSE ftc
           open == [Event(rep, "GivenOpen", Len(scopes)) EXCEPT !.name = name]
           setup == [Event(rep, "Setup", Len(scopes) + 1) EXCEPT
                        !.tcIn = ftc, !.tcOut = tc1]
       IN  /\ runCalls' = Append(runCalls, name)
           /\ IF host = "T"
              THEN /\ scopes' = Append(scopes, name)
                   /\ givenRan' = given
                   /\ ftc' = ThroughPointer(ftc, tc1)
                   /\ trace' = trace \o <<open>>
                          \o (IF given THEN <<setup>> ELSE <<>>)
                   /\ pc' = NextPhase(pc)
              ELSE /\ scopes' = Append(scopes, name)
                   /\ trace' = Append(trace, open)
                   /\ pc' = "panicked"
                   /\ UNCHANGED <<givenRan, ftc>>
    /\ b' = Receiver(b, wb)
    /\ UNCHANGED <<tableTestIndex, host, invocations, tc, seed, wb, prefix,
                   hasGivenPhase, arrangeRan, given, result, i, pos, rep,
                   hookCalls, fatalfCalls, errorCalls, prevTrace>>
    /\ panicValue' = PanicValue(pc', PanicNilT, panicValue)
    /\ UNCHANGED built

\* AfterGiven is dispatched inside the given scope.
AfterGiven ==
    /\ pc = "afterGiven"
    /\ LET mode == wb.hooks.AfterGiven
           tc1 == HookTC(mode, ftc, "afterGiven")
           w1 == HookLabels(mode, wb)
           ag == [Event(rep, "AfterGiven", Len(scopes)) EXCEPT
                     !.tcIn = ftc, !.tcOut = tc1, !.flags = <<givenRan>>,
                     !.labels = <<w1.Given, w1.When, w1.Then>>]
       IN  /\ ftc' = ThroughPointer(ftc, tc1)
           /\ wb' = w1
           /\ trace' = trace \o HookEvent(mode, ag)
    /\ pc' = NextPhase(pc)
    /\ b' = Receiver(b, wb')
    /\ UNCHANGED <<tableTestIndex, host, invocations, tc, seed, prefix,
                   hasGivenPhase, arrangeRan, given, givenRan, result, scopes,
                   i, pos, rep, runCalls, hookCalls, fatalfCalls, errorCalls,
                   prevTrace>>
    /\ panicValue' = PanicValue(pc', PanicNotT, panicValue)
    /\ UNCHANGED built

\* Describe, when set, returns the When and Then of the replay.
Describe ==
    /\ pc = "describe"
    /\ IF wb.Describe = "nil"
       THEN /\ pc' = NextPhase(pc)
            /\ UNCHANGED <<wb, trace>>
       ELSE IF GetTPanics(b.getT, CtxAt(host, scopes))
       THEN /\ pc' = "panicked"
            /\ UNCHANGED <<wb, trace>>
       ELSE LET r == DescribeCall(wb.Describe, wb.When, wb.Then)
                call == [Event(rep, "Describe", Len(scopes)) EXCEPT
                            !.tcIn = ftc, !.tcOut = ftc,
                            !.labels = <<wb.Given, wb.When, wb.Then>>]
            IN  /\ wb' = Described(wb, r)
                /\ trace' = Append(trace, call)
                /\ pc' = NextPhase(pc)
    /\ b' = Receiver(b, wb')
    /\ UNCHANGED <<tableTestIndex, host, invocations, tc, seed, ftc, prefix,
                   hasGivenPhase, arrangeRan, given, givenRan, result, scopes,
                   i, pos, rep, runCalls, hookCalls, fatalfCalls, errorCalls,
                   prevTrace>>
    /\ panicValue' = PanicValue(pc', PanicNotT, panicValue)
    /\ UNCHANGED built

\* The validation gate: one soft failure per violated check, then one hard
\* failure when any was violated.
Gate ==
    /\ pc = "gate"
    /\ LET errs == GateErrors(wb)
           gate == [Event(rep, "Gate", Len(scopes)) EXCEPT
                       !.labels = <<wb.Given, wb.When, wb.Then>>,
                       !.flags = <<wb.Act, wb.AssertFn>>]
           soft == [k \in 1..Len(errs) |->
                       [Event(rep, "Error", Len(scopes)) EXCEPT
                           !.msg = errs[k]]]
           fail == [Event(rep, "Fatalf", Len(scopes)) EXCEPT
                       !.msg = FmtGate, !.name = prefix]
       IN  /\ errorCalls' = errorCalls \o errs
           /\ IF GateFails(wb)
              THEN /\ fatalfCalls' = Append(fatalfCalls,
                          FatalfCall(FmtGate, <<StrArg(prefix)>>))
                   /\ trace' = trace \o <<gate>> \o soft \o <<fail>>
                   /\ pc' = FatalfThen(host, scopes, NextPhase(pc))
              ELSE /\ trace' = trace \o <<gate>> \o soft
                   /\ pc' = NextPhase(pc)
                   /\ UNCHANGED fatalfCalls
    /\ b' = Receiver(b, wb)
    /\ UNCHANGED <<tableTestIndex, host, invocations, tc, seed, ftc, wb, prefix,
                   hasGivenPhase, arrangeRan, given, givenRan, result, scopes,
                   i, pos, rep, runCalls, hookCalls, prevTrace>>
    /\ panicValue' = PanicValue(pc', PanicNotT, panicValue)
    /\ UNCHANGED built

\* The when scope is opened on the current context and Act runs in it.
WhenScope ==
    /\ pc = "when"
    /\ LET name == WhenStr(prefix, hasGivenPhase, wb.When)
           r == ActCall(ftc)
           open == [Event(rep, "WhenOpen", Len(scopes)) EXCEPT !.name = name]
           act == [Event(rep, "Act", Len(scopes) + 1) EXCEPT
                      !.tcIn = ftc, !.tcOut = ftc, !.resOut = r]
       IN  /\ runCalls' = Append(runCalls, name)
           /\ scopes' = Append(scopes, name)
           /\ result' = r
           /\ trace' = trace \o <<open, act>>
    /\ pc' = NextPhase(pc)
    /\ b' = Receiver(b, wb)
    /\ UNCHANGED <<tableTestIndex, host, invocations, tc, seed, ftc, wb, prefix,
                   hasGivenPhase, arrangeRan, given, givenRan, i, pos, rep,
                   hookCalls, fatalfCalls, errorCalls, prevTrace>>
    /\ panicValue' = PanicValue(pc', PanicNotT, panicValue)
    /\ UNCHANGED built

\* AfterAct is dispatched inside the when scope.
AfterAct ==
    /\ pc = "afterAct"
    /\ LET mode == wb.hooks.AfterAct
           tc1 == HookTC(mode, ftc, "afterAct")
           r1 == HookResult(mode, result, "afterAct")
           aa == [Event(rep, "AfterAct", Len(scopes)) EXCEPT
                     !.tcIn = ftc, !.tcOut = tc1,
                     !.resIn = result, !.resOut = r1]
       IN  /\ ftc' = ThroughPointer(ftc, tc1)
           /\ result' = ThroughPointer(result, r1)
           /\ trace' = trace \o HookEvent(mode, aa)
    /\ pc' = NextPhase(pc)
    /\ b' = Receiver(b, wb)
    /\ UNCHANGED <<tableTestIndex, host, invocations, tc, seed, wb, prefix,
                   hasGivenPhase, arrangeRan, given, givenRan, scopes, i, pos, rep,
                   runCalls, hookCalls, fatalfCalls, errorCalls, prevTrace>>
    /\ panicValue' = PanicValue(pc', PanicNotT, panicValue)
    /\ UNCHANGED built

\* A nillableT that reports the scope name to runHook also when it has a
\* live *testing.T.
ReportsToRunHookAlways(h, hook) == hook

\* Whether nillableT.Run reports the scope name to runHook: when its t is nil,
\* which is what the self-test double hands the when scope, and runHook is
\* set.
ReportsToRunHook(h, hook) == h # "T" /\ hook

\* The then scope is opened through nillableT.Run (on the live host, or else
\* reported to runHook when that is set) and Assert runs in it.
ThenScope ==
    /\ pc = "then"
    /\ LET name == ThenStr(wb.Then)
           open == [Event(rep, "ThenOpen", Len(scopes)) EXCEPT
                       !.name = name,
                       !.msg = IF host = "T" THEN "host"
                               ELSE IF b.runHook THEN "runHook" ELSE "none"]
           call == [Event(rep, "Assert", Len(scopes) + 1) EXCEPT
                         !.tcIn = ftc, !.tcOut = ftc,
                         !.resIn = result, !.resOut = result]
       IN  /\ runCalls' = IF host = "T" THEN Append(runCalls, name)
                           ELSE runCalls
           /\ hookCalls' = IF ReportsToRunHook(host, b.runHook)
                            THEN Append(hookCalls, name)
                            ELSE hookCalls
           /\ scopes' = Append(scopes, name)
           /\ trace' = trace \o <<open, call>>
    /\ pc' = NextPhase(pc)
    /\ b' = Receiver(b, wb)
    /\ UNCHANGED <<tableTestIndex, host, invocations, tc, seed, ftc, wb, prefix,
                   hasGivenPhase, arrangeRan, given, givenRan, result, i, pos, rep,
                   fatalfCalls, errorCalls, prevTrace>>
    /\ panicValue' = PanicValue(pc', PanicNotT, panicValue)
    /\ UNCHANGED built

\* AfterAssert is dispatched inside the then scope.
AfterAssert ==
    /\ pc = "afterAssert"
    /\ LET mode == wb.hooks.AfterAssert
           tc1 == HookTC(mode, ftc, "afterAssert")
           r1 == HookResult(mode, result, "afterAssert")
           aa == [Event(rep, "AfterAssert", Len(scopes)) EXCEPT
                     !.tcIn = ftc, !.tcOut = tc1,
                     !.resIn = result, !.resOut = r1]
       IN  /\ ftc' = ThroughPointer(ftc, tc1)
           /\ result' = ThroughPointer(result, r1)
           /\ trace' = trace \o HookEvent(mode, aa)
    /\ pc' = NextPhase(pc)
    /\ b' = Receiver(b, wb)
    /\ UNCHANGED <<tableTestIndex, host, invocations, tc, seed, wb, prefix,
                   hasGivenPhase, arrangeRan, given, givenRan, scopes, i, pos, rep,
                   runCalls, hookCalls, fatalfCalls, errorCalls, prevTrace>>
    /\ panicValue' = PanicValue(pc', PanicNotT, panicValue)
    /\ UNCHANGED built

\* A host that ends the outermost open scope first.
ClosingOutermost(stack) == 1

\* Which of the open scopes ends next: Run returns when the function it was
\* handed has returned, so the innermost one.
Closing(stack) == Len(stack)

\* The innermost open scope ends: its function returned, or its goroutine
\* was ended by a hard failure.
CloseScope ==
    /\ pc = "unwind"
    /\ scopes # <<>>
    /\ trace' = Append(trace,
           [Event(rep, "Close", Len(scopes) - 1) EXCEPT
               !.name = scopes[Closing(scopes)]])
    /\ scopes' = SubSeq(scopes, 1, Closing(scopes) - 1)
                    \o SubSeq(scopes, Closing(scopes) + 1, Len(scopes))
    /\ UNCHANGED <<b, tableTestIndex, host, pc, invocations, tc, seed, ftc, wb,
                   prefix, hasGivenPhase, arrangeRan, given, givenRan, result,
                   i, pos, rep, runCalls, hookCalls, fatalfCalls, errorCalls,
                   prevTrace>>
    /\ panicValue' = PanicValue(pc', PanicNotT, panicValue)
    /\ UNCHANGED built

\* A replay whose return the returned function never takes up.
AfterReplayBlocks(r) == "blocked"

\* A walk that calls the generator again after every replay.
AfterReplayCallsVariants(r) == "variants"

\* Where the returned function goes on when replay r has returned: after the
\* basis replay to the Variants slot, after a variant's to the loop head.
AfterReplay(r) == IF r = 0 THEN "variants" ELSE "iter"

\* The replay returned to the returned function: the basis replay goes on to
\* the Variants slot, a variant's replay to the next entry.
ReplayDone ==
    /\ pc = "unwind"
    /\ scopes = <<>>
    /\ pc' = AfterReplay(rep)
    /\ trace' = Append(trace, Event(rep, "Return", 0))
    /\ UNCHANGED <<b, tableTestIndex, host, invocations, tc, seed, ftc, wb, prefix,
                   hasGivenPhase, arrangeRan, given, givenRan, result, scopes,
                   i, pos, rep, runCalls, hookCalls, fatalfCalls, errorCalls,
                   prevTrace>>
    /\ panicValue' = PanicValue(pc', PanicNotT, panicValue)
    /\ UNCHANGED built

\* ------------------------------------------------------- the variant walk

\* A generator handed the tc of the basis replay instead of the captured one.
VariantsSeedReplay(captured, replayed) == replayed

\* The seed handed to the Variants generator: the captured tc, which the
\* basis replay's own tc shadows (tc := tc).
VariantsSeed(captured, replayed) == captured

\* After the basis replay: without Variants the invocation returns; else the
\* generator is called with the seed.
CallVariants ==
    /\ pc = "variants"
    /\ IF ~b.Variants.present
       THEN /\ pc' = "done"
            /\ UNCHANGED trace
       ELSE IF GetTPanics(b.getT, host)
       THEN /\ pc' = "panicked"
            /\ UNCHANGED trace
       ELSE /\ pc' = "iter"
            /\ trace' = Append(trace,
                   [Event(-1, "Variants", 0) EXCEPT
                       !.tcIn = VariantsSeed(tc, ftc),
                       !.tcOut = VariantsSeed(tc, ftc)])
    /\ seed' = VariantsSeed(tc, ftc)
    /\ i' = -1
    /\ UNCHANGED <<pos, b, tableTestIndex, host, invocations, tc, ftc, wb, prefix,
                   hasGivenPhase, arrangeRan, given, givenRan, result, scopes,
                   rep, runCalls, hookCalls, fatalfCalls, errorCalls,
                   prevTrace>>
    /\ panicValue' = PanicValue(pc', PanicNotT, panicValue)
    /\ UNCHANGED built

\* The entry the generator yields next, and whether it has one.
HasNext == pos < Len(b.Variants.seq)

NextVariant == b.Variants.seq[pos + 1]

\* A walk that looks at the Kind first: an entry without one is not skipped.
SkippedIfKind(v) == v.SkipTC /\ v.Kind # EmptyStr

\* The entry is passed over: SkipTC is looked at before the Kind.
Skipped(v) == v.SkipTC

\* A walk that does not count the entries it skips.
SkipIndexStays(k) == k

\* The index after an entry with SkipTC set.
SkipIndex(k) == k + 1

\* The generator is exhausted: the invocation returns.
VariantsEnd ==
    /\ pc = "iter"
    /\ ~HasNext
    /\ pc' = "done"
    /\ UNCHANGED <<b, tableTestIndex, host, invocations, tc, seed, ftc, wb, prefix,
                   hasGivenPhase, arrangeRan, given, givenRan, result, scopes,
                   i, pos, rep, runCalls, hookCalls, fatalfCalls, errorCalls,
                   trace, prevTrace>>
    /\ panicValue' = PanicValue(pc', PanicNotT, panicValue)
    /\ UNCHANGED built

\* An entry with SkipTC set is passed over.
VariantSkip ==
    /\ pc = "iter"
    /\ HasNext
    /\ Skipped(NextVariant)
    /\ i' = SkipIndex(i)
    /\ pos' = pos + 1
    /\ trace' = Append(trace,
           [Event(-1, "Skip", 0) EXCEPT !.pos = pos + 1, !.n = i'])
    /\ UNCHANGED <<b, tableTestIndex, host, pc, invocations, tc, seed, ftc, wb,
                   prefix, hasGivenPhase, arrangeRan, given, givenRan, result,
                   scopes, rep, runCalls, hookCalls, fatalfCalls, errorCalls,
                   prevTrace>>
    /\ panicValue' = PanicValue(pc', PanicNotT, panicValue)
    /\ UNCHANGED built

\* A walk that takes every entry to have a Kind.
KindMissingNever(v) == FALSE

\* The entry has no Kind detail.
KindMissing(v) == v.Kind = EmptyStr

\* An entry without a Kind is a hard failure on the caller's context.
VariantNoKind ==
    /\ pc = "iter"
    /\ HasNext
    /\ ~Skipped(NextVariant)
    /\ KindMissing(NextVariant)
    /\ i' = i + 1
    /\ pos' = pos + 1
    /\ fatalfCalls' = Append(fatalfCalls,
           FatalfCall(FmtNoKind, <<IntArg(i + 1)>>))
    /\ trace' = Append(trace,
           [Event(-1, "Fatalf", 0) EXCEPT
               !.pos = pos + 1, !.msg = FmtNoKind, !.n = i + 1])
    /\ pc' = IF host = "T" THEN "aborted" ELSE "iter"
    /\ UNCHANGED <<b, tableTestIndex, host, invocations, tc, seed, ftc, wb, prefix,
                   hasGivenPhase, arrangeRan, given, givenRan, result, scopes,
                   rep, runCalls, hookCalls, errorCalls, prevTrace>>
    /\ panicValue' = PanicValue(pc', PanicNotT, panicValue)
    /\ UNCHANGED built

\* A walk that clones the TC of every entry it replays.
ClonesVariantAlways(v, hasClone) == hasClone

\* The TC of the entry is cloned: SkipCloneTC is not set and CloneTC is.
ClonesVariant(v, hasClone) == ~v.SkipCloneTC /\ hasClone

\* An entry with a Kind is replayed: its TC, cloned unless SkipCloneTC is set
\* or CloneTC is nil, under the prefix Kind.
VariantReplay ==
    /\ pc = "iter"
    /\ HasNext
    /\ ~Skipped(NextVariant)
    /\ ~KindMissing(NextVariant)
    /\ LET v == NextVariant
           vtc == VariantTC(seed)
           cloned == ClonesVariant(v, b.CloneTC)
       IN  /\ ftc' = IF cloned THEN CloneCall(vtc) ELSE vtc
           /\ trace' = trace \o
                  (IF cloned
                   THEN <<[Event(pos + 1, "CloneTC", 0) EXCEPT
                              !.pos = pos + 1,
                              !.tcIn = vtc, !.tcOut = CloneCall(vtc)]>>
                   ELSE <<>>)
           /\ prefix' = v.Kind
    /\ i' = i + 1
    /\ pos' = pos + 1
    /\ rep' = pos + 1
    /\ pc' = "build"
    /\ UNCHANGED <<b, tableTestIndex, host, invocations, tc, seed, wb,
                   hasGivenPhase, arrangeRan, given, givenRan, result, scopes,
                   runCalls, hookCalls, fatalfCalls, errorCalls, prevTrace>>
    /\ panicValue' = PanicValue(pc', PanicNotT, panicValue)
    /\ UNCHANGED built

\* The invocation is over: the returned function returned, or a hard failure
\* on the caller's context ended the caller's goroutine.
Return ==
    /\ pc \in {"done", "aborted"}
    /\ pc' = "idle"
    /\ invocations' = invocations + 1
    /\ UNCHANGED <<b, tableTestIndex, host, tc, seed, ftc, wb, prefix,
                   hasGivenPhase, arrangeRan, given, givenRan, result, scopes,
                   i, pos, rep, runCalls, hookCalls, fatalfCalls, errorCalls,
                   trace, prevTrace>>
    /\ panicValue' = PanicValue(pc', PanicNotT, panicValue)
    /\ UNCHANGED built

\* ------------------------------------------------- the configurations

\* The ordinals: what New passes, another negative one, zero, a larger one.
Indices == {-MaxIndex, -1, 0, MaxIndex}

Labels(x) == {EmptyStr, <<x>>}

ArrangeFns ==
    {NoArrange,
     ArrangeFn("fixed", FALSE, FALSE), ArrangeFn("fixed", TRUE, FALSE),
     ArrangeFn("empty", FALSE, FALSE), ArrangeFn("empty", TRUE, FALSE),
     ArrangeFn("seed", FALSE, TRUE)}

DescribeFns == {"nil", "echo", "erase", "fill"}

HookSets == {NoHooks, AllHooks("noop"), AllHooks("active")}

\* The entries a generator may yield.
VariantKinds ==
    {Variant(<<"k">>, FALSE, FALSE), Variant(<<"q">>, FALSE, TRUE),
     Variant(<<"s">>, TRUE, FALSE), Variant(EmptyStr, FALSE, FALSE),
     Variant(EmptyStr, TRUE, FALSE)}

VariantSeqs == UNION {[1..n -> VariantKinds] : n \in 0..MaxVariants}

\* How a lifecycle is run: production (a live *testing.T, defaultGetT), the
\* self-test (the double mT, nilGetT, runHook set), the double with
\* defaultGetT, and a live *testing.T with runHook set.
Environments ==
    {[host |-> "T", getT |-> "default", runHook |-> FALSE],
     [host |-> "mT", getT |-> "nil", runHook |-> TRUE],
     [host |-> "mT", getT |-> "default", runHook |-> FALSE],
     [host |-> "T", getT |-> "nil", runHook |-> TRUE]}

Config(l, idx, h) == [b |-> l, tableTestIndex |-> idx, host |-> h]

\* Every shape of one replay, without variants, in production and self-test.
PhaseConfigs ==
    {Config(Lifecycle(g, w, t, h, a, d, act, assert, TRUE, NoVariants,
                      e.getT, e.runHook), idx, e.host) :
        g \in Labels("g"), w \in Labels("w"), t \in Labels("t"),
        h \in HookSets, a \in ArrangeFns, d \in DescribeFns,
        act \in BOOLEAN, assert \in BOOLEAN,
        e \in {x \in Environments : x.runHook = (x.host = "mT")},
        idx \in {-1}}

\* The lifecycles the variant walk is exercised with: WT-like, GWT-like, one
\* that fails the gate on the caller's context, one that fails it inside the
\* given scope, one whose Arrange returns a nil callback; with CloneTC and
\* hooks that use their views, and three of them without either.
FanoutShape(g, w, a, act, h, c) ==
    [g |-> g, w |-> w, a |-> a, act |-> act, hooks |-> h, clone |-> c]

FanoutShapes ==
    UNION {
      {FanoutShape(EmptyStr, <<"w">>, NoArrange, TRUE, h, h # NoHooks),
       FanoutShape(EmptyStr, <<"w">>, ArrangeFn("fixed", FALSE, FALSE), TRUE,
                   h, h # NoHooks),
       FanoutShape(<<"g">>, EmptyStr, NoArrange, TRUE, h, h # NoHooks)} :
      h \in {NoHooks, AllHooks("active")}}
    \cup
    {FanoutShape(EmptyStr, <<"w">>, NoArrange, FALSE, AllHooks("active"),
                 TRUE),
     FanoutShape(<<"g">>, <<"w">>, ArrangeFn("seed", TRUE, TRUE), TRUE,
                 NoHooks, TRUE)}

\* The ordinals each environment of the variant walk is run with.
FanoutIndices(e) ==
    IF e.host = "T" /\ e.getT = "default" THEN {-1, MaxIndex}
    ELSE IF e.host = "mT" /\ e.getT = "nil" THEN {0}
    ELSE IF e.host = "T" THEN {-MaxIndex}
    ELSE {-1}

\* The variant walk: every sequence of entries under every environment.
FanoutConfigs ==
    UNION {
      {Config(Lifecycle(s.g, s.w, <<"t">>, s.hooks, s.a,
                        IF s.hooks = NoHooks THEN "nil" ELSE "echo",
                        s.act, TRUE,
                        s.clone, VariantsFn(seq), e.getT, e.runHook),
              idx, e.host) :
          s \in FanoutShapes, seq \in VariantSeqs, idx \in FanoutIndices(e)} :
      e \in Environments}

Configs == PhaseConfigs \cup FanoutConfigs

\* ------------------------------------------------------ the specification

Init ==
    /\ \E c \in Configs :
          /\ b = c.b
          /\ tableTestIndex = c.tableTestIndex
          /\ host = c.host
          /\ wb = WorkingCopy(c.b)
    /\ pc = "idle"
    /\ invocations = 0
    /\ tc = {}
    /\ ftc = {}
    /\ seed = {}
    /\ prefix = EmptyStr
    /\ hasGivenPhase = FALSE
    /\ arrangeRan = FALSE
    /\ given = FALSE
    /\ givenRan = FALSE
    /\ result = NoResult
    /\ scopes = <<>>
    /\ i = -1
    /\ pos = 0
    /\ rep = 0
    /\ runCalls = <<>>
    /\ hookCalls = <<>>
    /\ fatalfCalls = <<>>
    /\ errorCalls = <<>>
    /\ trace = <<>>
    /\ prevTrace = <<>>
    /\ built = NoCall
    /\ panicValue = NoPanic

Next ==
    \/ Invoke
    \/ BaseReplay
    \/ Build
    \/ Arrange
    \/ AfterArrange
    \/ GivenScope
    \/ AfterGiven
    \/ Describe
    \/ Gate
    \/ WhenScope
    \/ AfterAct
    \/ ThenScope
    \/ AfterAssert
    \/ CloseScope
    \/ ReplayDone
    \/ CallVariants
    \/ VariantsEnd
    \/ VariantSkip
    \/ VariantNoKind
    \/ VariantReplay
    \/ Return

Spec == Init /\ [][Next]_vars

\* The returned function runs on one goroutine that the host schedules until
\* it returns, is ended by a hard failure or panics: a step that can be
\* taken is taken.
LiveSpec == Init /\ [][Next]_vars /\ WF_vars(Next)

\* ------------------------------------------------------- the builders

\* The values GWT panics with.
PanicGWTGiven ==
    "tbdd.GWT: given description must be non-empty when given function is non-nil"

PanicGWTWhen == "tbdd.GWT: when description must be non-empty"

PanicGWTWhenF == "tbdd.GWT: when function must be non-nil"

PanicGWTThen == "tbdd.GWT: then description must be non-empty"

PanicGWTThenF == "tbdd.GWT: then function must be non-nil"

\* The zero value of the lifecycle struct.
ZeroLifecycle ==
    Lifecycle(EmptyStr, EmptyStr, EmptyStr, NoHooks, NoArrange, "nil", FALSE, FALSE, FALSE, NoVariants, "default", FALSE)

\* What a builder call comes to: a panic, or the Lifecycle it returns.
Panicked(value) == [panic |-> value, b |-> ZeroLifecycle]

Returned(d) == [panic |-> NoPanic, b |-> d]

\* A GWT that checks the when function before the when description.
GWTFunctionsFirst(tcv, given_, givenF, when, whenF, then, thenF) ==
    IF givenF /\ given_ = EmptyStr THEN Panicked(PanicGWTGiven)
    ELSE IF ~whenF THEN Panicked(PanicGWTWhenF)
    ELSE IF when = EmptyStr THEN Panicked(PanicGWTWhen)
    ELSE IF ~thenF THEN Panicked(PanicGWTThenF)
    ELSE IF then = EmptyStr THEN Panicked(PanicGWTThen)
    ELSE Returned([Lifecycle(given_, when, then, NoHooks, IF givenF THEN ArrangeFn("G", FALSE, FALSE) ELSE NoArrange, "nil", TRUE, TRUE, FALSE, NoVariants, "default", FALSE) EXCEPT !.TC = tcv])

\* A GWT whose Arrange returns no setup callback.
GWTNilSetup(tcv, given_, givenF, when, whenF, then, thenF) ==
    IF givenF /\ given_ = EmptyStr THEN Panicked(PanicGWTGiven)
    ELSE IF when = EmptyStr THEN Panicked(PanicGWTWhen)
    ELSE IF ~whenF THEN Panicked(PanicGWTWhenF)
    ELSE IF then = EmptyStr THEN Panicked(PanicGWTThen)
    ELSE IF ~thenF THEN Panicked(PanicGWTThenF)
    ELSE Returned([Lifecycle(given_, when, then, NoHooks, IF givenF THEN ArrangeFn("G", TRUE, FALSE) ELSE NoArrange, "nil", TRUE, TRUE, FALSE, NoVariants, "default", FALSE) EXCEPT !.TC = tcv])

\* GWT: the checks in the order of the code, then the Lifecycle whose Arrange
\* (only with a given function) returns the given description and a setup
\* callback that calls givenF, whose Act is whenF and whose Assert calls
\* thenF. A function argument is described by whether it is non-nil.
GWT(tcv, given_, givenF, when, whenF, then, thenF) ==
    IF givenF /\ given_ = EmptyStr THEN Panicked(PanicGWTGiven)
    ELSE IF when = EmptyStr THEN Panicked(PanicGWTWhen)
    ELSE IF ~whenF THEN Panicked(PanicGWTWhenF)
    ELSE IF then = EmptyStr THEN Panicked(PanicGWTThen)
    ELSE IF ~thenF THEN Panicked(PanicGWTThenF)
    ELSE Returned([Lifecycle(given_, when, then, NoHooks, IF givenF THEN ArrangeFn("G", FALSE, FALSE) ELSE NoArrange, "nil", TRUE, TRUE, FALSE, NoVariants, "default", FALSE) EXCEPT !.TC = tcv])

\* A WT that hands GWT a given description of its own.
WTWithGiven(tcv, when, whenF, then, thenF) ==
    GWT(tcv, <<"G">>, FALSE, when, whenF, then, thenF)

\* WT: GWT without a given description and a given function.
WT(tcv, when, whenF, then, thenF) ==
    GWT(tcv, EmptyStr, FALSE, when, whenF, then, thenF)

\* A Helper that leaves a record with the host.
HelperRecorded(calls) == Append(calls, <<"H">>)

\* t.Helper(): nothing is run and nothing is recorded.
Helper(calls) == calls

\* The outcome of the builder call c.
Outcome(c) ==
    IF c.fn = "GWT"
    THEN GWT({}, c.given, c.givenF, c.when, c.whenF, c.then, c.thenF)
    ELSE WT({}, c.when, c.whenF, c.then, c.thenF)

\* The builder is called: it panics, or its Lifecycle is there to call New or
\* NewI on.
BuilderCall(fn) ==
    /\ pc = "args"
    /\ built.fn = fn
    /\ IF Outcome(built).panic # NoPanic
       THEN /\ pc' = "panicked"
            /\ panicValue' = Outcome(built).panic
            /\ UNCHANGED <<b, wb>>
       ELSE /\ pc' = "built"
            /\ b' = Outcome(built).b
            /\ wb' = WorkingCopy(Outcome(built).b)
            /\ UNCHANGED panicValue
    /\ UNCHANGED <<tableTestIndex, host, invocations, tc, seed, ftc, prefix,
                   hasGivenPhase, arrangeRan, given, givenRan, result, scopes,
                   i, pos, rep, runCalls, hookCalls, fatalfCalls, errorCalls,
                   trace, prevTrace, built>>

GWTCall == BuilderCall("GWT")

WTCall == BuilderCall("WT")

\* New or NewI is called on the Lifecycle: the function that runs it is
\* returned, with the ordinal it will number its scopes with (New passes -1).
NewICall ==
    /\ pc = "built"
    /\ pc' = "idle"
    /\ tableTestIndex' = IF built.via = "New" THEN -1 ELSE built.ordinal
    /\ runCalls' = Helper(runCalls)
    /\ UNCHANGED <<b, host, invocations, tc, seed, ftc, wb, prefix,
                   hasGivenPhase, arrangeRan, given, givenRan, result, scopes,
                   i, pos, rep, hookCalls, fatalfCalls, errorCalls, trace,
                   prevTrace, built, panicValue>>

\* The builder calls: every combination of empty and non-empty descriptions
\* and of nil and non-nil functions, run through New or through NewI.
BuilderLabels(x) == {EmptyStr, <<x>>}

BuilderCalls ==
    {[fn |-> fn, given |-> g, givenF |-> gf, when |-> w, whenF |-> wf,
      then |-> t, thenF |-> tf, via |-> via, ordinal |-> 0] :
        fn \in {"GWT", "WT"}, g \in BuilderLabels("G"), gf \in BOOLEAN,
        w \in BuilderLabels("w"), wf \in BOOLEAN,
        t \in BuilderLabels("t"), tf \in BOOLEAN, via \in {"New", "NewI"}}

\* Before the builder is called, on a live host.
BuilderInit ==
    /\ built \in {c \in BuilderCalls :
                     c.fn = "WT" => c.given = EmptyStr /\ ~c.givenF}
    /\ b = ZeroLifecycle
    /\ wb = WorkingCopy(ZeroLifecycle)
    /\ tableTestIndex = -1
    /\ host = "T"
    /\ pc = "args"
    /\ invocations = 0
    /\ tc = {}
    /\ ftc = {}
    /\ seed = {}
    /\ prefix = EmptyStr
    /\ hasGivenPhase = FALSE
    /\ arrangeRan = FALSE
    /\ given = FALSE
    /\ givenRan = FALSE
    /\ result = NoResult
    /\ scopes = <<>>
    /\ i = -1
    /\ pos = 0
    /\ rep = 0
    /\ runCalls = <<>>
    /\ hookCalls = <<>>
    /\ fatalfCalls = <<>>
    /\ errorCalls = <<>>
    /\ trace = <<>>
    /\ prevTrace = <<>>
    /\ panicValue = NoPanic

\* Building, then the invocations of the function New or NewI returned.
BuilderNext ==
    \/ GWTCall
    \/ WTCall
    \/ NewICall
    \/ Invoke
    \/ BaseReplay
    \/ Build
    \/ Arrange
    \/ AfterArrange
    \/ GivenScope
    \/ AfterGiven
    \/ Describe
    \/ Gate
    \/ WhenScope
    \/ AfterAct
    \/ ThenScope
    \/ AfterAssert
    \/ CloseScope
    \/ ReplayDone
    \/ CallVariants
    \/ Return

BuilderSpec == BuilderInit /\ [][BuilderNext]_vars

\* ------------------------------------------- with and without the hooks

\* Between two invocations the four hooks are installed on a descriptor that
\* has none, as functions that do nothing: the invocation before ran without
\* hooks, the one after runs with them.
InstallNoopHooks ==
    /\ pc = "idle"
    /\ invocations = 1
    /\ b.hooks = NoHooks
    /\ b' = [b EXCEPT !.hooks = AllHooks("noop")]
    /\ UNCHANGED <<tableTestIndex, host, pc, invocations, tc, seed, ftc, wb,
                   prefix, hasGivenPhase, arrangeRan, given, givenRan, result,
                   scopes, i, pos, rep, runCalls, hookCalls, fatalfCalls,
                   errorCalls, trace, prevTrace, built, panicValue>>

\* The descriptors without hooks.
HooksInit == Init /\ b.hooks = NoHooks

HooksNext == Next \/ InstallNoopHooks

HooksSpec == HooksInit /\ [][HooksNext]_vars

\* ------------------------------------------------- reading the history

\* The replays that left an entry in the trace.
Replays == {trace[k].rep : k \in DOMAIN trace} \ {-1}

\* The entries of replay r, in order.
OfReplay(r) == SelectSeq(trace, LAMBDA e : e.rep = r)

\* The entries of replay r of the kinds in evs, in order.
Only(r, evs) == SelectSeq(trace, LAMBDA e : e.rep = r /\ e.ev \in evs)

\* The place of each phase, hook and scope entry in the documented order.
PhaseOrder ==
    <<"Arrange", "AfterArrange", "GivenOpen", "Setup", "AfterGiven",
      "Describe", "Gate", "WhenOpen", "Act", "AfterAct", "ThenOpen",
      "Assert", "AfterAssert">>

PhaseEvents == {PhaseOrder[k] : k \in DOMAIN PhaseOrder}

Rank(ev) == CHOOSE k \in DOMAIN PhaseOrder : PhaseOrder[k] = ev

\* The prefix argument replay r was built with: none for the basis replay,
\* the Kind of the entry for a variant's.
PrefixArg(r) == IF r = 0 THEN EmptyStr ELSE b.Variants.seq[r].Kind

\* The composed prefix replay r was built with, as its first entry records.
PrefixOf(r) == Only(r, {"Replay"})[1].name

\* Whether s starts with p, and what follows p in s.
StartsWith(s, p) == Len(s) >= Len(p) /\ SubSeq(s, 1, Len(p)) = p

After(s, p) == SubSeq(s, Len(p) + 1, Len(s))

ScopeOpens == {"GivenOpen", "WhenOpen", "ThenOpen"}

Callbacks == {"Setup", "Describe", "Act", "Assert"}

\* ------------------------------------------------------------- the claims

\* C1: in every replay, basis or variant, the phase, hook and scope entries
\* that occur appear in the order Arrange, AfterArrange, given scope, setup
\* callback, AfterGiven, Describe, validation gate, when scope, Act, AfterAct,
\* then scope, Assert, AfterAssert: none occurs before one that precedes it.
C1_FixedOrder ==
    \A r \in Replays :
        LET es == Only(r, PhaseEvents)
        IN  \A k \in 1..(Len(es) - 1) : Rank(es[k].ev) < Rank(es[k + 1].ev)

\* A variant's replay in which all thirteen entries occurred.
C1_Witness ==
    \E r \in Replays : r >= 1 /\ Len(Only(r, PhaseEvents)) = Len(PhaseOrder)

\* The soft failures the gate owes to the labels and slots it was reached
\* with, as the documentation lists them.
OwedErrors(g) ==
    (IF g.labels[2] = EmptyStr THEN <<ErrWhen>> ELSE <<>>)
    \o (IF g.labels[3] = EmptyStr THEN <<ErrThen>> ELSE <<>>)
    \o (IF ~g.flags[1] THEN <<ErrAct>> ELSE <<>>)
    \o (IF ~g.flags[2] THEN <<ErrAssert>> ELSE <<>>)

\* The messages of the entries es.
Messages(es) == [k \in DOMAIN es |-> es[k].msg]

\* C2: a replay that reaches the validation gate records one soft failure per
\* violated check, in the order When, Then, Act, Assert; when a check is
\* violated it then issues exactly one hard failure, the gate's, with the
\* composed prefix, opens no when scope and calls neither Act nor Assert; when
\* none is violated it records no failure.
C2_ValidationGate ==
    \A r \in Replays :
        Only(r, {"Gate"}) # <<>> =>
            LET g == Only(r, {"Gate"})[1]
                fails == Only(r, {"Error", "Fatalf"})
                fatals == Only(r, {"Fatalf"})
            IN  /\ Messages(Only(r, {"Error"})) = OwedErrors(g)
                /\ OwedErrors(g) = <<>> => fails = <<>>
                /\ OwedErrors(g) # <<>> =>
                      /\ Len(fatals) = 1
                      /\ fatals[1].msg = FmtGate
                      /\ fatals[1].name = PrefixOf(r)
                      /\ fails[Len(fails)].ev = "Fatalf"
                      /\ Only(r, {"WhenOpen", "ThenOpen", "Act", "Assert"})
                            = <<>>

\* The self-test double has returned from a replay in which all four checks
\* were violated.
C2_Witness ==
    /\ host = "mT"
    /\ pc = "idle"
    /\ \E r \in Replays : Len(Only(r, {"Error"})) = 4

\* C3: a replay whose Arrange returns a nil setup callback, with an empty
\* label or not, records exactly one hard failure, the nil-callback one, with
\* the composed prefix; it opens no scope, runs neither the setup callback nor
\* Describe, Act or Assert, and does not reach the gate.
C3_NilSetupCallback ==
    \A r \in Replays :
        \A k \in DOMAIN Only(r, {"Arrange"}) :
            Only(r, {"Arrange"})[k].flags = <<FALSE>> =>
                LET fatals == Only(r, {"Fatalf"})
                IN  /\ Len(fatals) = 1
                    /\ fatals[1].msg = FmtNilGiven
                    /\ fatals[1].name = PrefixOf(r)
                    /\ Only(r, {"Error", "Gate"} \cup ScopeOpens
                                  \cup Callbacks) = <<>>

\* The self-test double has returned from a replay whose Arrange returned an
\* empty label and a nil callback.
C3_Witness ==
    /\ host = "mT"
    /\ pc = "idle"
    /\ \E r \in Replays :
          /\ Only(r, {"Arrange"}) # <<>>
          /\ Only(r, {"Arrange"})[1].flags = <<FALSE>>
          /\ Only(r, {"Arrange"})[1].name = EmptyStr

\* Replay r has called Arrange and not yet checked the label it returned.
Checking(r) == rep = r /\ pc = "afterArrange"

\* C4: a given scope is opened only under a name that ends in a non-empty
\* Given label, and a replay whose Arrange returns an empty label with a
\* non-nil setup callback records exactly one hard failure, the empty-Given
\* one, with the composed prefix, opens no scope and runs neither the setup
\* callback nor Describe, Act or Assert.
C4_EmptyGivenLabel ==
    /\ \A k \in DOMAIN trace :
          trace[k].ev = "GivenOpen" =>
              LET head == PrefixOf(trace[k].rep) \o GivenWord
              IN  /\ StartsWith(trace[k].name, head)
                  /\ After(trace[k].name, head) # EmptyStr
    /\ \A r \in Replays :
          \A k \in DOMAIN Only(r, {"Arrange"}) :
              LET a == Only(r, {"Arrange"})[k]
                  fatals == Only(r, {"Fatalf"})
              IN  (a.flags = <<TRUE>> /\ a.name = EmptyStr) =>
                      /\ Checking(r) => fatals = <<>>
                      /\ ~Checking(r) =>
                            /\ Len(fatals) = 1
                            /\ fatals[1].msg = FmtEmptyGiven
                            /\ fatals[1].name = PrefixOf(r)
                      /\ Only(r, {"Error", "Gate"} \cup ScopeOpens
                                    \cup Callbacks) = <<>>

\* The self-test double has returned from a replay whose Arrange returned an
\* empty label and a setup callback.
C4_Witness ==
    /\ host = "mT"
    /\ pc = "idle"
    /\ \E r \in Replays :
          /\ Only(r, {"Arrange"}) # <<>>
          /\ Only(r, {"Arrange"})[1].flags = <<TRUE>>
          /\ Only(r, {"Arrange"})[1].name = EmptyStr

\* The Given label replay r has when its given scope is opened: the one its
\* Arrange returned, or the descriptor's when it has no Arrange.
GivenLabelOf(r) ==
    IF Only(r, {"Arrange"}) # <<>> THEN Only(r, {"Arrange"})[1].name
    ELSE b.Given

\* The labels replay r passed the validation gate with.
GateLabels(r) == Only(r, {"Gate"})[1].labels

\* C5: the composed prefix of a replay is prepended to the name of its
\* outermost scope only: the given scope is the outermost one and is named
\* '<prefix>given <Given>'; the when scope is named '<prefix>when <When>' when
\* it is the outermost one, which it is exactly when no given scope was
\* opened, and 'when <When>' inside a given scope; the then scope is nested
\* and named 'then <Then>'.
C5_PrefixOnOutermostScope ==
    \A k \in DOMAIN trace :
        LET e == trace[k]
            r == e.rep
        IN  /\ e.ev = "GivenOpen" =>
                  /\ e.depth = 0
                  /\ e.name = PrefixOf(r) \o GivenWord \o GivenLabelOf(r)
            /\ e.ev = "WhenOpen" =>
                  /\ e.depth = 0 <=> Only(r, {"GivenOpen"}) = <<>>
                  /\ e.depth = 0 =>
                        e.name = PrefixOf(r) \o WhenWord \o GateLabels(r)[2]
                  /\ e.depth # 0 =>
                        e.name = WhenWord \o GateLabels(r)[2]
            /\ e.ev = "ThenOpen" =>
                  /\ e.depth # 0
                  /\ e.name = ThenWord \o GateLabels(r)[3]

\* A replay with a non-empty composed prefix opened its given, when and then
\* scopes.
C5_Witness ==
    \E r \in Replays :
        /\ Only(r, {"Replay"}) # <<>>
        /\ PrefixOf(r) # EmptyStr
        /\ Len(Only(r, ScopeOpens)) = 3

\* The number a string of decimal digits denotes.
RECURSIVE DecimalValue(_)
DecimalValue(s) ==
    IF s = <<>> THEN 0
    ELSE 10 * DecimalValue(SubSeq(s, 1, Len(s) - 1))
         + (CHOOSE d \in 0..9 : Digits[d + 1] = s[Len(s)])

\* s is the decimal rendering of the natural number n.
IsDecimalOf(s, n) ==
    /\ s # <<>>
    /\ \A k \in DOMAIN s : \E d \in DOMAIN Digits : Digits[d] = s[k]
    /\ Len(s) > 1 => s[1] # "0"
    /\ DecimalValue(s) = n

\* s is the composed prefix the documentation gives for the ordinal n and the
\* incoming prefix p.
IsComposedPrefix(s, n, p) ==
    IF n < 0
    THEN s = (IF p = EmptyStr THEN EmptyStr ELSE p \o Slash)
    ELSE LET tail == IF p = EmptyStr THEN Slash ELSE Slash \o p \o Slash
             cut == Len(s) - Len(tail)
         IN  /\ cut >= 1
             /\ SubSeq(s, cut + 1, Len(s)) = tail
             /\ IsDecimalOf(SubSeq(s, 1, cut), n)

\* C6: the composed prefix of every replay is determined by the ordinal i and
\* the incoming prefix p: '<i>/' or '<i>/<p>/' with i in decimal when i >= 0,
\* and '' or '<p>/', whatever the negative i, when i < 0.
C6_ComposedPrefix ==
    \A k \in DOMAIN trace :
        trace[k].ev = "Replay" =>
            IsComposedPrefix(trace[k].name, tableTestIndex,
                             PrefixArg(trace[k].rep))

\* A variant was replayed under a two-digit ordinal.
C6_Witness ==
    /\ tableTestIndex = MaxIndex
    /\ \E k \in DOMAIN trace : trace[k].ev = "Replay" /\ trace[k].rep >= 1

\* The outermost scope openings of the variants' replays.
VariantOutermostOpens ==
    SelectSeq(trace, LAMBDA e :
        e.ev \in ScopeOpens /\ e.rep >= 1 /\ e.depth = 0)

\* The name nm is head followed by 'given <label>' or 'when <label>' with a
\* non-empty label, for a head that is the composed prefix of n and p.
IsNamedUnder(nm, n, p) ==
    \E c \in 0..Len(nm) :
        /\ IsComposedPrefix(SubSeq(nm, 1, c), n, p)
        /\ \E word \in {GivenWord, WhenWord} :
              /\ StartsWith(After(nm, SubSeq(nm, 1, c)), word)
              /\ Len(nm) > c + Len(word)

\* C7 as stated: the outermost scope of every variant's replay is named with
\* the Kind alone, '<k>/given ...' or '<k>/when ...', whatever the ordinal.
C7_KindAlone ==
    \A k \in DOMAIN VariantOutermostOpens :
        LET e == VariantOutermostOpens[k]
        IN  IsNamedUnder(e.name, -1, PrefixArg(e.rep))

\* C7: the outermost scope of every variant's replay is named with the
\* composed prefix of the descriptor's ordinal and the Kind: '<k>/given ...'
\* or '<k>/when ...' when the ordinal is negative, '<i>/<k>/given ...' or
\* '<i>/<k>/when ...' when the ordinal i is not.
C7_KindAfterOrdinal ==
    \A k \in DOMAIN VariantOutermostOpens :
        LET e == VariantOutermostOpens[k]
        IN  IsNamedUnder(e.name, tableTestIndex, PrefixArg(e.rep))

\* A variant's replay opened its outermost scope under an ordinal >= 0.
C7_Witness ==
    /\ tableTestIndex >= 0
    /\ VariantOutermostOpens # <<>>

\* C8: the Variants generator is handed the test case captured when the
\* invocation started, the descriptor's own, whatever the basis replay did to
\* its copy of it.
C8_VariantsSeedIsCaptured ==
    \A k \in DOMAIN trace :
        trace[k].ev = "Variants" => trace[k].tcIn = b.TC

\* The generator was called after a basis replay whose callbacks and hooks
\* had changed the replay's copy of the test case.
C8_Witness ==
    /\ \E k \in DOMAIN trace : trace[k].ev = "Variants"
    /\ \E k \in DOMAIN trace :
          /\ trace[k].rep = 0
          /\ trace[k].ev \in {"Arrange", "Setup", "AfterGiven", "AfterAssert"}
          /\ trace[k].tcOut # trace[k].tcIn

\* C9: no step of an invocation changes the descriptor, and an invocation
\* that follows another one of the same returned function leaves the same
\* sequence of scope names, failures and phase and hook calls as that one.
C9_DescriptorUnchanged ==
    /\ [][b' = b]_vars
    /\ [](pc = "idle" /\ invocations >= 2 => trace = prevTrace)

\* The returned function has returned twice, and the replays of the second
\* invocation wrote to their working copy.
C9_Witness ==
    /\ pc = "idle"
    /\ invocations = 2
    /\ trace # <<>>
    /\ wb # WorkingCopy(b)

\* C10: an entry yielded with SkipTC set leaves nothing behind but the
\* passing over itself (no scope, phase, hook, CloneTC or failure), and the
\* index reported for an entry without a Kind is its zero-based position in
\* the sequence, the skipped entries before it counted.
C10_SkippedButCounted ==
    /\ \A k \in 1..pos :
          b.Variants.seq[k].SkipTC =>
              \A m \in DOMAIN trace :
                  trace[m].pos = k => trace[m].ev = "Skip"
    /\ \A m \in DOMAIN trace :
          (trace[m].ev = "Fatalf" /\ trace[m].msg = FmtNoKind) =>
              trace[m].n = trace[m].pos - 1

\* An entry was skipped and a later entry without a Kind was reported.
C10_Witness ==
    \E m \in DOMAIN trace :
        /\ trace[m].ev = "Skip"
        /\ \E j \in DOMAIN trace :
              /\ j > m
              /\ trace[j].ev = "Fatalf"
              /\ trace[j].msg = FmtNoKind
              /\ trace[j].n >= 1

\* The trace entries left by the entry at position k of the yielded sequence.
AtPosition(k) == SelectSeq(trace, LAMBDA e : e.pos = k)

\* The positions the walk has visited whose entry is not skipped and has no
\* Kind.
NoKindPositions ==
    {k \in 1..pos : ~b.Variants.seq[k].SkipTC
                    /\ b.Variants.seq[k].Kind = EmptyStr}

\* C11: a visited entry that is not skipped and has an empty Kind leaves
\* exactly one entry in the history, a hard failure with the no-Kind format
\* whose single argument is the entry's zero-based position, and the host
\* records that call once; the entry is not cloned and not replayed.
C11_NoKindFailure ==
    \A k \in NoKindPositions :
        /\ Len(AtPosition(k)) = 1
        /\ AtPosition(k)[1].ev = "Fatalf"
        /\ AtPosition(k)[1].msg = FmtNoKind
        /\ AtPosition(k)[1].n = k - 1
        /\ Cardinality({j \in DOMAIN fatalfCalls :
               fatalfCalls[j] = FatalfCall(FmtNoKind, <<IntArg(k - 1)>>)}) = 1

\* The walk reported an entry without a Kind that was not the first one
\* yielded.
C11_Witness ==
    \E k \in NoKindPositions : k >= 2 /\ AtPosition(k) # <<>>

\* The invocation has ended: the returned function returned, or a hard
\* failure ended its goroutine.
Ended == pc \in {"done", "aborted"}

\* The positions of the entries the generator would yield that are not
\* skipped and have a Kind.
ReplayablePositions ==
    {k \in 1..Len(b.Variants.seq) : ~b.Variants.seq[k].SkipTC
                                    /\ b.Variants.seq[k].Kind # EmptyStr}

\* C12: the failure of an entry without a Kind does not keep the walk from
\* the later entries: when the invocation has ended, every entry after it
\* that is not skipped and has a Kind has been replayed.
C12_NoKindIsLocal ==
    Ended =>
        \A k \in NoKindPositions :
            \A j \in ReplayablePositions :
                j > k => \E m \in DOMAIN trace :
                             trace[m].ev = "Replay" /\ trace[m].rep = j

\* The CloneTC calls of the invocation, and those made for replay r.
CloneCalls == SelectSeq(trace, LAMBDA e : e.ev = "CloneTC")

CloneCallsOf(r) == SelectSeq(trace, LAMBDA e : e.ev = "CloneTC" /\ e.rep = r)

\* The replays that have started, and among them those of variants that do
\* not set SkipCloneTC.
Started == {r \in Replays : Only(r, {"Replay"}) # <<>>}

StartedCloning == {r \in Started : r >= 1 /\ ~b.Variants.seq[r].SkipCloneTC}

\* The test case replay r is owed before cloning: the captured one for the
\* basis, the entry's TC for a variant.
OwedTC(r) == IF r = 0 THEN b.TC ELSE VariantTC(b.TC)

\* C13: with CloneTC configured, the basis replay and every replayed variant
\* that does not set SkipCloneTC start from the output of exactly one CloneTC
\* call on the captured test case, respectively on the entry's TC; a replayed
\* variant that sets SkipCloneTC starts from its TC uncloned; no CloneTC call
\* is made for an entry that is skipped, has no Kind or sets SkipCloneTC; and
\* an invocation that has ended has made 1 plus the number of replayed
\* variants without SkipCloneTC calls.
C13_CloneOncePerReplay ==
    b.CloneTC =>
        /\ \A r \in Started :
              IF r = 0 \/ r \in StartedCloning
              THEN /\ Len(CloneCallsOf(r)) = 1
                   /\ CloneCallsOf(r)[1].tcIn = OwedTC(r)
                   /\ Only(r, {"Replay"})[1].tcIn = CloneCallsOf(r)[1].tcOut
              ELSE /\ CloneCallsOf(r) = <<>>
                   /\ Only(r, {"Replay"})[1].tcIn = OwedTC(r)
        /\ \A k \in DOMAIN CloneCalls :
              LET r == CloneCalls[k].rep
              IN  r >= 1 => /\ ~b.Variants.seq[r].SkipTC
                            /\ ~b.Variants.seq[r].SkipCloneTC
                            /\ b.Variants.seq[r].Kind # EmptyStr
        /\ Ended => Len(CloneCalls) = 1 + Cardinality(StartedCloning)

\* An invocation with CloneTC configured has ended after replaying a variant
\* that sets SkipCloneTC and one that does not.
C13_Witness ==
    /\ b.CloneTC
    /\ Ended
    /\ StartedCloning # {}
    /\ \E r \in Started : r >= 1 /\ b.Variants.seq[r].SkipCloneTC

\* GWT's checks on the arguments of the call c, in the documented order,
\* each with the value it panics with.
GWTChecks(c) ==
    << <<c.givenF /\ c.given = EmptyStr, PanicGWTGiven>>,
       <<c.when = EmptyStr, PanicGWTWhen>>,
       <<~c.whenF, PanicGWTWhenF>>,
       <<c.then = EmptyStr, PanicGWTThen>>,
       <<~c.thenF, PanicGWTThenF>> >>

\* The panic the call c owes: that of the first violated check, or none.
OwedPanic(c) ==
    LET failing == {k \in DOMAIN GWTChecks(c) : GWTChecks(c)[k][1]}
    IN  IF failing = {} THEN NoPanic
        ELSE GWTChecks(c)[CHOOSE k \in failing : \A j \in failing : k <= j][2]

\* Nothing was run and nothing was recorded with the host.
Inert ==
    /\ trace = <<>>
    /\ runCalls = <<>>
    /\ hookCalls = <<>>
    /\ fatalfCalls = <<>>
    /\ errorCalls = <<>>

\* C14: a GWT call panics exactly when one of its five checks is violated,
\* with the message of the first violated check in the order given label,
\* when label, when function, then label, then function, without having
\* called any of its function arguments and without a descriptor; otherwise
\* it returns the descriptor of its arguments and nothing panics, in the call
\* or afterwards.
C14_GWTChecks ==
    (built.fn = "GWT" /\ pc # "args") =>
        IF OwedPanic(built) # NoPanic
        THEN /\ pc = "panicked"
             /\ panicValue = OwedPanic(built)
             /\ b = ZeroLifecycle
             /\ Inert
        ELSE /\ pc # "panicked"
             /\ panicValue = NoPanic
             /\ b.Given = built.given
             /\ b.When = built.when
             /\ b.Then = built.then
             /\ b.Arrange.present = built.givenF
             /\ b.Act
             /\ b.AssertFn

\* A GWT call with a given function and label, an empty when label and a nil
\* when function has panicked.
C14_Witness ==
    /\ built.fn = "GWT"
    /\ pc = "panicked"
    /\ built.givenF
    /\ built.given # EmptyStr
    /\ built.when = EmptyStr
    /\ ~built.whenF

\* C15: a WT call comes to what the GWT call with an empty given label and a
\* nil given function comes to: the same panic, in GWT's words, on the same
\* arguments, and otherwise the same descriptor, which has an empty Given and
\* no Arrange, so that its replays have no given phase.
C15_WTIsGWTWithoutGiven ==
    (built.fn = "WT" /\ pc # "args") =>
        LET g == GWT({}, EmptyStr, FALSE, built.when, built.whenF,
                     built.then, built.thenF)
        IN  /\ panicValue = g.panic
            /\ panicValue \in {NoPanic, PanicGWTWhen, PanicGWTWhenF,
                               PanicGWTThen, PanicGWTThenF}
            /\ pc = "panicked" <=> g.panic # NoPanic
            /\ g.panic = NoPanic =>
                  /\ b = g.b
                  /\ b.Given = EmptyStr
                  /\ ~b.Arrange.present
                  /\ \A k \in DOMAIN trace :
                        /\ trace[k].ev \notin {"Arrange", "GivenOpen", "Setup"}
                        /\ trace[k].ev = "Replay" => trace[k].flags = <<FALSE>>

\* The function of a descriptor WT returned has run to its end.
C15_Witness ==
    /\ built.fn = "WT"
    /\ pc = "idle"
    /\ invocations >= 1
    /\ \E k \in DOMAIN trace : trace[k].ev = "ThenOpen"

\* C16: until the function New or NewI returned is invoked, nothing has been
\* run and nothing has been recorded with the host: not before the builder is
\* called, not when it has panicked or returned, and not when New or NewI has
\* returned.
C16_BuildingIsInert ==
    (\/ pc \in {"args", "built"}
     \/ pc = "idle" /\ invocations = 0
     \/ pc = "panicked" /\ panicValue = OwedPanic(built)) => Inert

\* New or NewI has returned the function of a descriptor built by GWT with a
\* given function, and the function has not been invoked.
C16_Witness ==
    /\ built.fn = "GWT"
    /\ built.givenF
    /\ pc = "idle"
    /\ invocations = 0

\* The calls of replay r that are handed the test case, in order.
HandedTC ==
    {"Arrange", "AfterArrange", "Setup", "AfterGiven", "Describe", "Act",
     "AfterAct", "Assert", "AfterAssert"}

\* The calls of replay r that are handed the result, in order.
HandedResult == {"Act", "AfterAct", "Assert", "AfterAssert"}

\* C17: within a replay every call is handed the test case as the call
\* before it left it, the first one the test case the replay started with,
\* so that what Arrange, the setup callback, AfterArrange, AfterGiven and
\* AfterAct write through their views reaches every later phase and hook; and
\* Assert and AfterAssert are handed the result as Act and then AfterAct left
\* it.
C17_ViewsCarryForward ==
    \A r \in Started :
        LET tcs == Only(r, HandedTC)
            res == Only(r, HandedResult)
        IN  /\ tcs # <<>> => tcs[1].tcIn = Only(r, {"Replay"})[1].tcIn
            /\ \A k \in 1..(Len(tcs) - 1) : tcs[k + 1].tcIn = tcs[k].tcOut
            /\ \A k \in 1..(Len(res) - 1) : res[k + 1].resIn = res[k].resOut

\* Assert was handed a test case that Arrange, the setup callback and the
\* three hooks before it had written to, and a result AfterAct had written to.
C17_Witness ==
    \E k \in DOMAIN trace :
        /\ trace[k].ev = "Assert"
        /\ {"arrange", "given", "afterArrange", "afterGiven", "afterAct"}
              \subseteq trace[k].tcIn
        /\ "afterAct" \in trace[k].resIn.marks

\* Whether replay r was built with a given phase, and whether its Arrange
\* phase hard-failed.
BuiltWithGiven(r) == Only(r, {"Replay"})[1].flags[1]

ArrangeFailed(r) ==
    \E k \in DOMAIN Only(r, {"Fatalf"}) :
        Only(r, {"Fatalf"})[k].msg \in {FmtNilGiven, FmtEmptyGiven}

\* Replay r is past the point where its given scope is opened, and no panic
\* has ended the run.
PastGiven(r) ==
    /\ pc # "panicked"
    /\ rep = r => pc \notin {"arrange", "afterArrange", "given"}

\* C18: a replay is built with a given phase iff the descriptor has an
\* Arrange or a non-empty Given, whatever Arrange or a hook do later; a given
\* scope is opened only in a replay with a given phase whose Arrange phase did
\* not hard-fail, and is opened in every such replay; a replay without a
\* given phase opens none, also when AfterGiven has set a Given label.
C18_GivenPhaseDecidedOnce ==
    \A r \in Started :
        LET opened == Only(r, {"GivenOpen"}) # <<>>
        IN  /\ BuiltWithGiven(r) <=> (b.Arrange.present \/ b.Given # EmptyStr)
            /\ opened => BuiltWithGiven(r) /\ ~ArrangeFailed(r)
            /\ (BuiltWithGiven(r) /\ ~ArrangeFailed(r) /\ PastGiven(r))
                  => opened

\* A replay without a given phase went on to its when scope after AfterGiven
\* had set a Given label.
C18_Witness ==
    \E r \in Started :
        /\ ~BuiltWithGiven(r)
        /\ \E k \in DOMAIN Only(r, {"AfterGiven"}) :
              Only(r, {"AfterGiven"})[k].labels[1] # EmptyStr
        /\ Only(r, {"WhenOpen"}) # <<>>

\* The calls that are handed what the translation returns.
Translated == {"Arrange", "AfterArrange", "AfterGiven", "Describe", "Variants"}

\* C19: the production translation panics for every context but a live
\* *testing.T, a nil one and none at all included, and for no live one; a run
\* that ended with its panic value ran with the production translation on a
\* context that is no live *testing.T, and a run with the production
\* translation on such a context makes none of the calls that are handed the
\* translated context and records no soft or hard failure; on a live host no
\* run panics.
C19_DefaultGetTPanics ==
    /\ \A ctx \in Contexts : GetTPanics("default", ctx) <=> ctx # "T"
    /\ panicValue = PanicNotT =>
          /\ pc = "panicked"
          /\ b.getT = "default"
          /\ CtxAt(host, scopes) # "T"
    /\ (b.getT = "default" /\ host # "T") =>
          /\ \A k \in DOMAIN trace : trace[k].ev \notin Translated
          /\ fatalfCalls = <<>>
          /\ errorCalls = <<>>
          /\ pc = "panicked" => panicValue = PanicNotT
    /\ host = "T" => panicValue = NoPanic

\* A run on the self-test double with the production translation has ended
\* in the translation's panic.
C19_Witness ==
    /\ host = "mT"
    /\ b.getT = "default"
    /\ pc = "panicked"
    /\ panicValue = PanicNotT

\* The hard failures of the validation gate that replay r raised inside a
\* scope it had opened.
GateFailuresInScope(r) ==
    SelectSeq(trace, LAMBDA e : /\ e.rep = r
                                /\ e.ev = "Fatalf"
                                /\ e.msg = FmtGate
                                /\ e.depth >= 1)

\* Every hard failure of the invocation so far was raised inside a scope, and
\* there is one.
ScopedFailuresOnly ==
    /\ \E k \in DOMAIN trace : trace[k].ev = "Fatalf"
    /\ \A k \in DOMAIN trace : trace[k].ev = "Fatalf" => trace[k].depth >= 1

\* C20: on a live host a hard failure of the validation gate raised inside
\* the given scope ends that scope only: the replay opens no when or then
\* scope and runs no Act or Assert, the replays before it stay completed, and
\* the invocation is not aborted: it ends normally with every entry that is
\* not skipped and has a Kind replayed to its return.
C20_HardFailureIsScoped ==
    host = "T" =>
        /\ \A r \in Started :
              GateFailuresInScope(r) # <<>> =>
                  /\ Len(GateFailuresInScope(r)) = 1
                  /\ Len(Only(r, {"GivenOpen"})) = 1
                  /\ Only(r, {"WhenOpen", "Act", "AfterAct", "ThenOpen",
                              "Assert", "AfterAssert"}) = <<>>
                  /\ \A q \in Started : q < r => Only(q, {"Return"}) # <<>>
        /\ ScopedFailuresOnly => pc # "aborted"
        /\ (Ended /\ ScopedFailuresOnly) =>
              \A j \in ReplayablePositions :
                  /\ Only(j, {"Replay"}) # <<>>
                  /\ Only(j, {"Return"}) # <<>>

\* A live host's basis replay failed the gate inside its given scope, and the
\* invocation went on to replay a variant and ended normally.
C20_Witness ==
    /\ host = "T"
    /\ pc = "done"
    /\ GateFailuresInScope(0) # <<>>
    /\ Only(0, {"Close"}) # <<>>
    /\ \E j \in ReplayablePositions : Only(j, {"Return"}) # <<>>

\* The entries of replay r of the kinds in evs among the first m - 1 entries.
Before(m, r, evs) ==
    SelectSeq(SubSeq(trace, 1, m - 1), LAMBDA e : e.rep = r /\ e.ev \in evs)

\* The calls of the Variants generator in the invocation.
VariantsCalls == SelectSeq(trace, LAMBDA e : e.ev = "Variants")

\* C21: the Variants generator is called at most once in an invocation, and
\* only after the basis replay has returned; the entries are walked in the
\* order they are yielded, in one pass; when the generator is resumed for its
\* next entry, every replay before it has returned with all its scopes
\* closed; and without Variants the basis replay is the only one.
C21_SinglePassWalk ==
    /\ Len(VariantsCalls) <= 1
    /\ \A m \in DOMAIN trace :
          /\ trace[m].ev = "Variants" => Before(m, 0, {"Return"}) # <<>>
          /\ trace[m].pos >= 1 =>
                \E k \in 1..(m - 1) : trace[k].ev = "Variants"
          /\ \A k \in 1..(m - 1) :
                /\ trace[k].pos <= trace[m].pos
                /\ (trace[k].rep >= 0 /\ trace[k].pos < trace[m].pos) =>
                      LET r == trace[k].rep
                      IN  /\ Len(Before(m, r, {"Return"})) = 1
                          /\ Len(Before(m, r, ScopeOpens))
                                = Len(Before(m, r, {"Close"}))
    /\ \A r \in Replays : \A k \in DOMAIN OfReplay(r) : OfReplay(r)[k].pos = r
    /\ ~b.Variants.present =>
          /\ Replays \subseteq {0}
          /\ VariantsCalls = <<>>
          /\ Len(Only(0, {"Replay"})) <= 1
          /\ pc = "done" => Len(Only(0, {"Replay"})) = 1

\* Two entries were replayed one after the other, each with scopes of its
\* own, and the walk ended.
C21_Witness ==
    /\ pc = "done"
    /\ Only(1, {"Return"}) # <<>>
    /\ Only(2, {"Return"}) # <<>>
    /\ Only(1, ScopeOpens) # <<>>
    /\ Only(2, ScopeOpens) # <<>>

\* Whether an AfterArrange hook is installed when replay r dispatches it: the
\* descriptor's, or the one Arrange installs.
AfterArrangeInstalled(r) ==
    \/ b.hooks.AfterArrange # "nil"
    \/ b.Arrange.present /\ b.Arrange.configure

\* Replay r has left the arrange phase behind without a panic of the context
\* translation.
PastArrange(r) ==
    /\ panicValue # PanicNotT
    /\ \/ r < rep
       \/ r = rep /\ pc \notin {"build", "arrange", "afterArrange"}

\* C22: an installed AfterArrange hook is dispatched exactly once in every
\* replay and a hook that is not installed never: with a given phase after
\* Arrange (when configured) has returned, and before the hard failure when
\* Arrange returned a nil callback or the Given label is empty; without a
\* given phase with no Arrange call at all.
C22_AfterArrangeOnce ==
    \A r \in Started :
        LET aa == Only(r, {"AfterArrange"})
            early == Only(r, {"Arrange", "AfterArrange", "Fatalf"})
        IN  /\ Len(aa) <= 1
            /\ ~AfterArrangeInstalled(r) => aa = <<>>
            /\ (AfterArrangeInstalled(r) /\ PastArrange(r)) => Len(aa) = 1
            /\ (aa # <<>> /\ b.Arrange.present) =>
                  /\ early[1].ev = "Arrange"
                  /\ early[2].ev = "AfterArrange"
            /\ (aa # <<>> /\ ~b.Arrange.present) =>
                  /\ early[1].ev = "AfterArrange"
                  /\ Only(r, {"Arrange"}) = <<>>
            /\ \A k \in DOMAIN early :
                  (early[k].ev = "Fatalf" /\ AfterArrangeInstalled(r)) =>
                      \E j \in 1..(k - 1) : early[j].ev = "AfterArrange"

\* A replay whose Arrange returned a nil setup callback dispatched the hook
\* and then reported the failure.
C22_Witness ==
    \E r \in Started :
        LET early == Only(r, {"Arrange", "AfterArrange", "Fatalf"})
        IN  /\ Len(early) = 3
            /\ early[2].ev = "AfterArrange"
            /\ early[3].ev = "Fatalf"
            /\ early[3].msg = FmtNilGiven

\* Whether the Arrange of replay r ran and returned a setup callback.
ReturnedSetup(r) ==
    Only(r, {"Arrange"}) # <<>> /\ Only(r, {"Arrange"})[1].flags[1]

\* C23: the flags of every AfterArrange dispatch are: ArrangeRan iff Arrange
\* is configured, NilGivenFunc iff Arrange is not configured or returned a nil
\* setup callback, EmptyGivenString iff the effective Given label is empty;
\* so (false, true, true) without a given phase, (false, true, false) with a
\* preset Given and no Arrange, and NilGivenFunc whenever ArrangeRan is false.
C23_AfterArrangeFlags ==
    \A r \in Started :
        \A k \in DOMAIN Only(r, {"AfterArrange"}) :
            LET f == Only(r, {"AfterArrange"})[k].flags
                hgp == Only(r, {"Replay"})[1].flags[1]
            IN  /\ Len(f) = 3
                /\ f[1] <=> b.Arrange.present
                /\ f[1] <=> Only(r, {"Arrange"}) # <<>>
                /\ f[2] <=> (~b.Arrange.present \/ ~ReturnedSetup(r))
                /\ f[3] <=> GivenLabelOf(r) = EmptyStr
                /\ ~hgp => f = <<FALSE, TRUE, TRUE>>
                /\ (~b.Arrange.present /\ b.Given # EmptyStr) =>
                      f = <<FALSE, TRUE, FALSE>>
                /\ ~f[1] => f[2]

\* A replay with a preset Given and no Arrange dispatched the hook with
\* (false, true, false).
C23_Witness ==
    \E r \in Started :
        /\ Only(r, {"AfterArrange"}) # <<>>
        /\ Only(r, {"AfterArrange"})[1].flags = <<FALSE, TRUE, FALSE>>
        /\ ~b.Arrange.present
        /\ b.Given # EmptyStr

\* Whether an AfterGiven hook is installed when replay r dispatches it: the
\* descriptor's, or the one Arrange installs.
AfterGivenInstalled(r) ==
    \/ b.hooks.AfterGiven # "nil"
    \/ b.Arrange.present /\ b.Arrange.configure

\* Replay r is past its AfterGiven dispatch, and no panic has ended the run.
PastAfterGiven(r) == PastGiven(r) /\ (rep = r => pc # "afterGiven")

\* The entries of replay r that precede its first entry of kind ev.
Preceding(r, ev) ==
    LET es == OfReplay(r)
        at == CHOOSE k \in DOMAIN es :
                  es[k].ev = ev /\ \A j \in 1..(k - 1) : es[j].ev # ev
    IN  SubSeq(es, 1, at - 1)

\* The kinds of the entries es.
Kinds(es) == {es[k].ev : k \in DOMAIN es}

\* C24: an installed AfterGiven hook is dispatched exactly once in every
\* replay whose Arrange phase does not hard-fail and never in one whose
\* Arrange phase hard-failed, and a hook that is not installed never. With a
\* given phase it is dispatched inside the open given scope, after the setup
\* callback and before Describe and the gate, with GivenRan true iff the
\* setup callback ran (so false for a preset Given without Arrange); without
\* one it is dispatched with no scope open and GivenRan false.
C24_AfterGivenOnce ==
    \A r \in Started :
        LET ag == Only(r, {"AfterGiven"})
        IN  /\ Len(ag) <= 1
            /\ ArrangeFailed(r) => ag = <<>>
            /\ ~AfterGivenInstalled(r) => ag = <<>>
            /\ (AfterGivenInstalled(r) /\ ~ArrangeFailed(r)
                  /\ PastAfterGiven(r)) => Len(ag) = 1
            /\ ag # <<>> =>
                  LET pre == Kinds(Preceding(r, "AfterGiven"))
                  IN  /\ pre \cap {"Describe", "Gate", "WhenOpen", "Close"} = {}
                      /\ Len(ag[1].flags) = 1
                      /\ ag[1].flags[1] <=> "Setup" \in pre
                      /\ ag[1].flags[1] <=> ReturnedSetup(r)
                      /\ BuiltWithGiven(r) =>
                            /\ "GivenOpen" \in pre
                            /\ ag[1].depth = 1
                      /\ ~BuiltWithGiven(r) =>
                            /\ "GivenOpen" \notin pre
                            /\ ag[1].depth = 0
                            /\ ~ag[1].flags[1]
                      /\ ~b.Arrange.present => ~ag[1].flags[1]

\* A replay with a preset Given and no Arrange dispatched AfterGiven inside
\* its given scope with GivenRan false and went on to Describe.
C24_Witness ==
    \E r \in Started :
        /\ ~b.Arrange.present
        /\ BuiltWithGiven(r)
        /\ Only(r, {"AfterGiven"}) # <<>>
        /\ Only(r, {"AfterGiven"})[1].flags = <<FALSE>>
        /\ Only(r, {"AfterGiven"})[1].depth = 1
        /\ Only(r, {"Describe"}) # <<>>

\* The hard failures the engine issues inside a replay.
ReplayFailures == {FmtNilGiven, FmtEmptyGiven, FmtGate}

\* C25: after a hard failure of the engine in a replay (nil setup callback,
\* empty Given label, validation gate) the replay runs no further phase, hook
\* or callback and opens no scope: all that follows in it is the closing of
\* the scopes that were open and its return. This holds on the self-test
\* double too, whose Fatalf returns: there such a replay has opened no scope
\* at all, so the scope names it recorded stay empty.
C25_NothingAfterHardFailure ==
    \A k \in DOMAIN trace :
        (trace[k].ev = "Fatalf" /\ trace[k].rep >= 0) =>
            /\ trace[k].msg \in ReplayFailures
            /\ \A m \in (k + 1)..Len(trace) :
                  trace[m].rep = trace[k].rep =>
                      trace[m].ev \in {"Close", "Return"}
            /\ Len(Only(trace[k].rep, {"Fatalf"})) = 1
            /\ host = "mT" =>
                  /\ Only(trace[k].rep, ScopeOpens) = <<>>
                  /\ pc \notin {"aborted", "panicked"}
                  /\ ~b.Variants.present =>
                        runCalls = <<>> /\ hookCalls = <<>>

\* The self-test double's Fatalf returned from the gate's hard failure and
\* the invocation returned with no scope name recorded.
C25_Witness ==
    /\ host = "mT"
    /\ pc = "idle"
    /\ invocations >= 1
    /\ \E k \in DOMAIN trace :
          /\ trace[k].ev = "Fatalf"
          /\ trace[k].msg = FmtGate
          /\ trace[Len(trace)].ev = "Return"
          /\ trace[Len(trace)].rep = trace[k].rep
    /\ runCalls = <<>>
    /\ hookCalls = <<>>

\* The Given, When and Then of replay r when it reaches Describe: what
\* AfterGiven left when it was dispatched, else what Arrange left when it
\* ran, else the descriptor's.
LabelsBeforeDescribe(r) ==
    IF Only(r, {"AfterGiven"}) # <<>> THEN Only(r, {"AfterGiven"})[1].labels
    ELSE IF Only(r, {"Arrange"}) # <<>>
    THEN LET a == ArrangeCall(WorkingCopy(b), {})
         IN  <<Only(r, {"Arrange"})[1].name, a.wb.When, a.wb.Then>>
    ELSE <<b.Given, b.When, b.Then>>

\* The Describe in effect in replay r: the one Arrange set when it ran and
\* set one, else the descriptor's.
DescribeOf(r) ==
    IF Only(r, {"Arrange"}) # <<>>
    THEN ArrangeCall(WorkingCopy(b), {}).wb.Describe
    ELSE b.Describe

\* What the Describe of replay r returns for the labels ls.
DescribeReturns(r, ls) == DescribeCall(DescribeOf(r), ls[2], ls[3])

\* C26: a configured Describe is handed the Given, When and Then current
\* after Arrange and AfterGiven, and the When and Then it returns are the
\* ones the gate checks and the when and then scopes are named with, also
\* when a returned label is empty: a When that was set is then erased and the
\* gate fails. Without Describe the labels reach the gate as they were.
C26_DescribeOverwrites ==
    \A r \in Started :
        LET ds == Only(r, {"Describe"})
            gs == Only(r, {"Gate"})
            ws == Only(r, {"WhenOpen"})
            ts == Only(r, {"ThenOpen"})
            before == LabelsBeforeDescribe(r)
            ret == DescribeReturns(r, before)
            final == IF DescribeOf(r) = "nil" THEN before
                     ELSE <<before[1], ret.When, ret.Then>>
        IN  /\ Len(ds) <= 1
            /\ DescribeOf(r) = "nil" => ds = <<>>
            /\ ds # <<>> => ds[1].labels = before
            /\ gs # <<>> =>
                  /\ DescribeOf(r) # "nil" => ds # <<>>
                  /\ gs[1].labels = final
                  /\ (final[2] = EmptyStr \/ final[3] = EmptyStr) =>
                        /\ Only(r, {"Fatalf"}) # <<>>
                        /\ ws = <<>>
            /\ ws # <<>> =>
                  ws[1].name = WhenStr(PrefixOf(r), BuiltWithGiven(r), final[2])
            /\ ts # <<>> => ts[1].name = ThenStr(final[3])

\* Describe was handed a When that was set and returned an empty one, and
\* the gate failed on it.
C26_Witness ==
    \E r \in Started :
        /\ Only(r, {"Describe"}) # <<>>
        /\ Only(r, {"Describe"})[1].labels[2] # EmptyStr
        /\ Only(r, {"Gate"}) # <<>>
        /\ Only(r, {"Gate"})[1].labels[2] = EmptyStr
        /\ Only(r, {"Error"}) # <<>>
        /\ Only(r, {"Error"})[1].msg = ErrWhen

\* The names of the entries es, and a sequence backwards.
NamesOf(es) == [k \in DOMAIN es |-> es[k].name]

Backwards(s) == [k \in 1..Len(s) |-> s[Len(s) + 1 - k]]

\* Replay r reached the gate with every check satisfied.
PassesGate(r) ==
    Only(r, {"Gate"}) # <<>> /\ OwedErrors(Only(r, {"Gate"})[1]) = <<>>

\* C27: the scopes of a replay are nested, at most three deep: the given
\* scope outermost, the when scope inside it (or outermost without a given
\* phase), the then scope inside the when scope after Act and AfterAct; no
\* scope is opened after one was closed, and scopes close innermost first. A
\* replay that passes the gate and returns has opened exactly given <Given>,
\* when <When>, then <Then> (without a given phase: when <When>, then
\* <Then>), each inside the one before, and records no failure.
C27_ScopesNested ==
    /\ Len(scopes) <= 3
    /\ \A r \in Started :
          LET opens == Only(r, ScopeOpens)
              closes == Only(r, {"Close"})
              both == Only(r, ScopeOpens \cup {"Close"})
              g == IF BuiltWithGiven(r) THEN 1 ELSE 0
          IN  /\ Len(opens) <= 3
              /\ \A k \in DOMAIN opens :
                    /\ opens[k].depth = k - 1
                    /\ both[k] = opens[k]
                    /\ opens[k].ev = (IF BuiltWithGiven(r)
                                      THEN <<"GivenOpen", "WhenOpen", "ThenOpen">>
                                      ELSE <<"WhenOpen", "ThenOpen">>)[k]
              /\ Len(closes) <= Len(opens)
              /\ \A k \in DOMAIN closes :
                    /\ closes[k].name = Backwards(NamesOf(opens))[k]
                    /\ closes[k].depth = Len(opens) - k
              /\ Only(r, {"Return"}) # <<>> => Len(closes) = Len(opens)
              /\ Only(r, {"ThenOpen"}) # <<>> =>
                    /\ "Act" \in Kinds(Preceding(r, "ThenOpen"))
                    /\ "Close" \notin Kinds(Preceding(r, "ThenOpen"))
                    /\ b.hooks.AfterAct # "nil" =>
                          "AfterAct" \in Kinds(Preceding(r, "ThenOpen"))
              /\ (PassesGate(r) /\ Only(r, {"Return"}) # <<>>) =>
                    LET ls == Only(r, {"Gate"})[1].labels
                    IN  /\ Len(opens) = g + 2
                        /\ BuiltWithGiven(r) =>
                              /\ StartsWith(opens[1].name, PrefixOf(r))
                              /\ After(opens[1].name, PrefixOf(r))
                                    = GivenWord \o GivenLabelOf(r)
                        /\ opens[g + 1].name
                              = (IF g = 0 THEN PrefixOf(r) ELSE EmptyStr)
                                  \o WhenWord \o ls[2]
                        /\ opens[g + 2].name = ThenWord \o ls[3]
                        /\ Only(r, {"Error", "Fatalf"}) = <<>>

\* A replay with a given phase passed the gate and returned with its three
\* scopes opened and closed.
C27_Witness ==
    \E r \in Started :
        /\ BuiltWithGiven(r)
        /\ PassesGate(r)
        /\ Only(r, {"Return"}) # <<>>
        /\ Len(Only(r, {"Close"})) = 3

\* The dispatches of the hooks.
HookKinds == {"AfterArrange", "AfterGiven", "AfterAct", "AfterAssert"}

\* What a run shows apart from the dispatches of its hooks: the scopes by
\* name, the soft and hard failures, the calls of Arrange, the setup
\* callback, Describe, Act and Assert with what they were handed, in order.
Observable(t) == SelectSeq(t, LAMBDA e : e.ev \notin HookKinds)

\* The invocation under way, or just over, runs with the hooks installed
\* after an invocation without them.
SecondWithHooks == b.hooks = AllHooks("noop") /\ invocations = 1 /\ pc # "idle"

\* C28: a descriptor run without hooks and then with hooks that do nothing
\* shows the same in both runs: at every point of the second run what it has
\* shown is how the first run began, and when it is over it is all of it:
\* same scopes, same failures, same calls of Arrange, the setup callback,
\* Describe, Act and Assert.
C28_AbsentHookIsNoop ==
    /\ SecondWithHooks =>
          /\ Len(Observable(trace)) <= Len(Observable(prevTrace))
          /\ Observable(trace)
                = SubSeq(Observable(prevTrace), 1, Len(Observable(trace)))
          /\ Ended => Observable(trace) = Observable(prevTrace)
    /\ b.hooks = NoHooks /\ ~b.Arrange.configure =>
          \A k \in DOMAIN trace : trace[k].ev \notin HookKinds

\* The second run, with hooks that do nothing, is over; it dispatched all
\* four hooks and the first one had opened scopes.
C28_Witness ==
    /\ SecondWithHooks
    /\ Ended
    /\ \A h \in HookKinds : \E k \in DOMAIN trace : trace[k].ev = h
    /\ \E k \in DOMAIN prevTrace : prevTrace[k].ev = "ThenOpen"
    /\ \A k \in DOMAIN prevTrace : prevTrace[k].ev \notin HookKinds

\* Replay r ran an Arrange that sets the slots it has references to.
Configured(r) == Only(r, {"Arrange"}) # <<>> /\ b.Arrange.configure

\* C29: what Arrange sets through its references counts in the same replay.
\* The AfterArrange hook it installs is dispatched right after it, also when
\* the replay then hard-fails; and when its Arrange phase does not fail, the
\* replay dispatches the AfterGiven hook and calls the Describe that Arrange
\* installed, passes the gate with the labels and functions Arrange set,
\* whatever the descriptor lacked, runs Act and Assert and dispatches the
\* AfterAct and AfterAssert hooks.
C29_ArrangeConfigures ==
    \A r \in Started :
        Configured(r) =>
            /\ PastArrange(r) => Only(r, {"AfterArrange"}) # <<>>
            /\ (Only(r, {"Return"}) # <<>> /\ ~ArrangeFailed(r)) =>
                  /\ Only(r, {"AfterGiven"}) # <<>>
                  /\ Only(r, {"Describe"}) # <<>>
                  /\ PassesGate(r)
                  /\ Only(r, {"Gate"})[1].flags = <<TRUE, TRUE>>
                  /\ Only(r, {"Fatalf", "Error"}) = <<>>
                  /\ Only(r, {"Act"}) # <<>>
                  /\ Only(r, {"AfterAct"}) # <<>>
                  /\ Only(r, {"Assert"}) # <<>>
                  /\ Only(r, {"AfterAssert"}) # <<>>

\* A descriptor without Then, Describe, Act, Assert and hooks ran Act and
\* Assert and the hooks in a replay whose Arrange set them.
C29_Witness ==
    \E r \in Started :
        /\ Configured(r)
        /\ b.Then = EmptyStr
        /\ b.Describe = "nil"
        /\ ~b.Act
        /\ ~b.AssertFn
        /\ b.hooks = NoHooks
        /\ Only(r, {"Return"}) # <<>>
        /\ Only(r, {"Describe"}) # <<>>
        /\ Only(r, {"AfterAssert"}) # <<>>

\* The kinds of the entries es, in order.
KindsInOrder(es) == [k \in DOMAIN es |-> es[k].ev]

\* The scopes and the calls of givenF, whenF and thenF a run of a built
\* descriptor is owed: a given scope when given is set, givenF in it when it
\* is non-nil, then the when scope with whenF and the then scope with thenF.
OwedRun(c) ==
    (IF c.given # EmptyStr THEN <<"GivenOpen">> ELSE <<>>)
    \o (IF c.givenF THEN <<"Setup">> ELSE <<>>)
    \o <<"WhenOpen", "Act", "ThenOpen", "Assert">>

\* The names of the scopes such a run is owed, under the composed prefix p.
OwedNames(c, p) ==
    IF c.given # EmptyStr
    THEN <<p \o GivenWord \o c.given, WhenWord \o c.when, ThenWord \o c.then>>
    ELSE <<p \o WhenWord \o c.when, ThenWord \o c.then>>

\* C30: the function New or NewI returns for an unmodified descriptor built
\* by GWT or WT records no soft or hard failure and neither aborts nor
\* panics; an invocation that has returned from its replay has called, once
\* each and in this order, givenF (when non-nil) inside the scope given
\* <given>, whenF inside when <when> and thenF inside then <then>; built by
\* WT, or by GWT with an empty given and a nil givenF, it has opened no given
\* scope and called whenF and thenF once each.
C30_BuiltDescriptorRuns ==
    (built.fn # "none" /\ pc \notin {"args", "built"}
       /\ Outcome(built).panic = NoPanic) =>
        /\ pc \notin {"aborted", "panicked"}
        /\ fatalfCalls = <<>>
        /\ errorCalls = <<>>
        /\ \A k \in DOMAIN trace : trace[k].ev \notin {"Error", "Fatalf"}
        /\ Replays \subseteq {0}
        /\ Only(0, {"Return"}) # <<>> =>
              /\ KindsInOrder(Only(0, ScopeOpens \cup {"Setup", "Act", "Assert"}))
                    = OwedRun(built)
              /\ NamesOf(Only(0, ScopeOpens)) = OwedNames(built, PrefixOf(0))
              /\ runCalls = OwedNames(built, PrefixOf(0))
              /\ built.via = "New" => PrefixOf(0) = EmptyStr
              /\ (built.fn = "WT" \/ (built.given = EmptyStr /\ ~built.givenF)) =>
                    /\ Only(0, {"GivenOpen", "Setup"}) = <<>>
                    /\ Len(Only(0, {"Act"})) = 1
                    /\ Len(Only(0, {"Assert"})) = 1

\* A descriptor built by GWT with a given function, run through New, has
\* returned from its three scopes.
C30_Witness ==
    /\ built.fn = "GWT"
    /\ built.givenF
    /\ built.via = "New"
    /\ pc = "done"
    /\ Len(runCalls) = 3
    /\ Only(0, {"Setup"}) # <<>>
    /\ Only(0, {"Assert"}) # <<>>

\* The labels of the descriptor.
DescriptorLabels == <<b.Given, b.When, b.Then>>

\* Replay r changed its working copy: it reached the gate with labels or
\* slots that are not the descriptor's.
ChangedConfiguration(r) ==
    /\ Only(r, {"Gate"}) # <<>>
    /\ \/ Only(r, {"Gate"})[1].labels # DescriptorLabels
       \/ Only(r, {"Gate"})[1].flags # <<b.Act, b.AssertFn>>

\* C31: every replay, basis or variant, starts from the descriptor's own
\* configuration, whatever Arrange, Describe or a hook changed in a replay
\* before it: a replay about to run Arrange holds a copy of the descriptor,
\* every Arrange is handed the descriptor's labels, every replay is built
\* with the given phase the descriptor asks for, and a variant's replay that
\* has returned went through the same phases and reached the gate with the
\* same labels and slots as the basis replay.
C31_ReplaysStartAfresh ==
    /\ pc = "arrange" => wb = WorkingCopy(b)
    /\ \A r \in Started :
          /\ BuiltWithGiven(r) <=> HasGivenPhase(WorkingCopy(b))
          /\ \A k \in DOMAIN Only(r, {"Arrange"}) :
                Only(r, {"Arrange"})[k].labels = DescriptorLabels
          /\ (r >= 1 /\ Only(r, {"Return"}) # <<>>
                /\ Only(0, {"Return"}) # <<>>) =>
                /\ KindsInOrder(Only(r, PhaseEvents))
                      = KindsInOrder(Only(0, PhaseEvents))
                /\ Only(r, {"Gate"}) # <<>> =>
                      /\ Only(r, {"Gate"})[1].labels
                            = Only(0, {"Gate"})[1].labels
                      /\ Only(r, {"Gate"})[1].flags
                            = Only(0, {"Gate"})[1].flags

\* The basis replay changed its labels, and a variant's replay after it ran
\* Arrange on the descriptor's labels and returned.
C31_Witness ==
    \E r \in Started :
        /\ r >= 1
        /\ ChangedConfiguration(0)
        /\ Only(r, {"Arrange"}) # <<>>
        /\ Only(r, {"Arrange"})[1].labels = DescriptorLabels
        /\ Only(r, {"Return"}) # <<>>

\* The hard failures the basis replay raised on the caller's own scope.
BasisFailuresOnCaller ==
    SelectSeq(trace, LAMBDA e : e.rep = 0 /\ e.ev = "Fatalf" /\ e.depth = 0)

\* C32: on a live host a hard failure the basis replay raises on the
\* caller's own scope (a nil setup callback, an empty Given label, or the
\* gate's in a replay without a given phase) ends the invocation there: the
\* failure is the last thing that happens in it, the Variants generator is
\* not called and no entry is walked or replayed.
C32_BasisFailureEndsInvocation ==
    (host = "T" /\ BasisFailuresOnCaller # <<>>) =>
        /\ pc \in {"aborted", "idle"}
        /\ Len(BasisFailuresOnCaller) = 1
        /\ trace[Len(trace)] = BasisFailuresOnCaller[1]
        /\ BasisFailuresOnCaller[1].msg \in ReplayFailures
        /\ BasisFailuresOnCaller[1].msg = FmtGate => ~BuiltWithGiven(0)
        /\ VariantsCalls = <<>>
        /\ Replays = {0}
        /\ pos = 0
        /\ \A k \in DOMAIN trace : trace[k].rep = 0

\* A descriptor with an entry to replay was aborted by the gate's failure of
\* the basis replay on the caller's scope.
C32_Witness ==
    /\ host = "T"
    /\ pc = "aborted"
    /\ ReplayablePositions # {}
    /\ BasisFailuresOnCaller # <<>>
    /\ BasisFailuresOnCaller[1].msg = FmtGate

\* The soft failures of the engine.
GateMessages == {ErrWhen, ErrThen, ErrAct, ErrAssert}

\* C33: a replay has at most one hard failure of the engine, and soft
\* failures only from the gate: each comes after the gate was reached and is
\* followed, in the same replay, by the gate's hard failure, with nothing but
\* soft failures in between. This holds on the self-test double too, whose
\* Fatalf returns. So the host holds a soft failure only if it holds a hard
\* one.
C33_OneHardFailurePerReplay ==
    /\ \A r \in Replays : Len(Only(r, {"Fatalf"})) <= 1
    /\ \A k \in DOMAIN trace :
          trace[k].ev = "Error" =>
              /\ trace[k].rep >= 0
              /\ trace[k].msg \in GateMessages
              /\ k > 1
              /\ trace[k - 1].ev \in {"Gate", "Error"}
              /\ trace[k - 1].rep = trace[k].rep
              /\ k < Len(trace)
              /\ trace[k + 1].ev \in {"Error", "Fatalf"}
              /\ trace[k + 1].rep = trace[k].rep
              /\ trace[k + 1].ev = "Fatalf" => trace[k + 1].msg = FmtGate
    /\ errorCalls # <<>> => fatalfCalls # <<>>
    /\ Len(fatalfCalls)
          = Len(SelectSeq(trace, LAMBDA e : e.ev = "Fatalf"))
    /\ Len(errorCalls)
          = Len(SelectSeq(trace, LAMBDA e : e.ev = "Error"))

\* On the self-test double two replays of one invocation each recorded soft
\* failures and one hard failure.
C33_Witness ==
    /\ host = "mT"
    /\ \E r \in Replays :
          /\ r >= 1
          /\ Only(0, {"Error"}) # <<>>
          /\ Len(Only(0, {"Fatalf"})) = 1
          /\ Only(r, {"Error"}) # <<>>
          /\ Len(Only(r, {"Fatalf"})) = 1

\* The positions the walk has visited whose entry sets SkipTC and has no
\* Kind.
SkippedNoKindPositions ==
    {k \in 1..pos : b.Variants.seq[k].SkipTC
                    /\ b.Variants.seq[k].Kind = EmptyStr}

\* C34: SkipTC is looked at before the Kind: a visited entry that sets SkipTC
\* and has an empty Kind is passed over with no failure and no replay, and
\* the host holds one no-Kind failure per visited entry without a Kind that
\* does not set SkipTC, and none for the others.
C34_SkipBeforeKind ==
    /\ \A k \in SkippedNoKindPositions :
          /\ Len(AtPosition(k)) = 1
          /\ AtPosition(k)[1].ev = "Skip"
          /\ k \notin Replays
    /\ Len(SelectSeq(fatalfCalls, LAMBDA f : f.format = FmtNoKind))
          = Cardinality(NoKindPositions)

\* The walk passed over an entry with SkipTC and no Kind and ended with no
\* failure.
C34_Witness ==
    /\ pc = "done"
    /\ SkippedNoKindPositions # {}
    /\ fatalfCalls = <<>>
    /\ errorCalls = <<>>

\* C35: whenever AfterGiven is dispatched, its GivenRan flag tells whether
\* the descriptor has an Arrange: a setup callback is what Arrange returned
\* and nothing else, and a replay whose Arrange returned none has no
\* AfterGiven dispatch, no given scope and no setup call.
C35_GivenRanIffArrange ==
    \A r \in Started :
        /\ \A k \in DOMAIN Only(r, {"AfterGiven"}) :
              Only(r, {"AfterGiven"})[k].flags = <<b.Arrange.present>>
        /\ Only(r, {"Setup"}) # <<>> => ReturnedSetup(r)
        /\ (Only(r, {"Arrange"}) # <<>> /\ ~ReturnedSetup(r)) =>
              Only(r, {"AfterGiven", "GivenOpen", "Setup"}) = <<>>

\* AfterGiven was dispatched with GivenRan true after the setup callback of
\* a replay whose Arrange returned one.
C35_Witness ==
    \E r \in Started :
        /\ ReturnedSetup(r)
        /\ Only(r, {"Setup"}) # <<>>
        /\ Only(r, {"AfterGiven"}) # <<>>
        /\ Only(r, {"AfterGiven"})[1].flags = <<TRUE>>

\* The user callbacks of a replay.
UserCallbacks == {"Arrange", "Setup", "Describe", "Act", "Assert"}

\* The calls of Arrange the invocation has made.
ArrangeCalls == SelectSeq(trace, LAMBDA e : e.ev = "Arrange")

\* C36: in one replay each of Arrange, the setup callback, Describe, Act and
\* Assert is called at most once, and Assert only after Act has returned,
\* with a result Act produced. A configured Arrange is called once in every replay
\* that got past the context translation and an absent one never, so when
\* the invocation has ended Arrange was called once per started replay; and
\* when the returned function returned the started replays are the basis
\* replay and one per entry that is not skipped and has a Kind.
C36_CallbacksOncePerReplay ==
    /\ \A r \in Started :
          /\ \A ev \in UserCallbacks : Len(Only(r, {ev})) <= 1
          /\ Only(r, {"Assert"}) # <<>> =>
                /\ "Act" \in Kinds(Preceding(r, "Assert"))
                /\ Only(r, {"Assert"})[1].resIn.set
          /\ (b.Arrange.present /\ PastArrange(r)) =>
                Len(Only(r, {"Arrange"})) = 1
          /\ ~b.Arrange.present => Only(r, {"Arrange"}) = <<>>
    /\ (Ended /\ b.Arrange.present /\ panicValue # PanicNotT) =>
          Len(ArrangeCalls) = Cardinality(Started)
    /\ pc = "done" =>
          Cardinality(Started) = 1 + Cardinality(ReplayablePositions)

\* The returned function returned after three replays, each of which called
\* Arrange, setup, Act and Assert once.
C36_Witness ==
    /\ pc = "done"
    /\ Cardinality(Started) = 3
    /\ Len(ArrangeCalls) = 3
    /\ \A r \in Started :
          \A ev \in {"Arrange", "Setup", "Act", "Assert"} :
              Len(Only(r, {ev})) = 1

\* The invocation is over: the returned function returned, a hard failure on
\* the caller's scope ended its goroutine, or it panicked.
Terminated == pc \in {"done", "aborted", "panicked"}

\* The scope entries of the trace, opened and closed.
Opened == SelectSeq(trace, LAMBDA e : e.ev \in ScopeOpens)

Closed == SelectSeq(trace, LAMBDA e : e.ev = "Close")

\* C37: with a finite sequence of variants and callbacks that return, every
\* invocation of the returned function comes to an end; when it ends without
\* a panic every scope it opened has been closed; and it never starts more
\* than 1 + n replays, n being the number of entries the generator yields.
C37_Terminates ==
    /\ [](Ended => (scopes = <<>> /\ Len(Opened) = Len(Closed)))
    /\ [](Cardinality(Started) <= 1 + Len(b.Variants.seq))
    /\ (pc = "base" ~> Terminated)

\* An invocation on a live host returned after the basis replay and one
\* replay per yielded entry, with the scopes of all of them closed.
C37_Witness ==
    /\ pc = "done"
    /\ host = "T"
    /\ Len(b.Variants.seq) = MaxVariants
    /\ Cardinality(Started) = 1 + MaxVariants
    /\ Len(Opened) >= 2 * (1 + MaxVariants)
    /\ Len(Closed) = Len(Opened)
    /\ scopes = <<>>

\* The invocation runs in self-test mode: on the double, with the context
\* translation replaced by one that yields nil and with runHook set.
SelfTest == host = "mT" /\ b.getT = "nil" /\ b.runHook

\* The names the double ends up with for replay r: those handed to its Run
\* and those handed to runHook, in the order of the calls.
Recorded(r) ==
    NamesOf(SelectSeq(trace, LAMBDA e :
        /\ e.rep = r
        /\ \/ e.ev \in {"GivenOpen", "WhenOpen"}
           \/ e.ev = "ThenOpen" /\ e.msg = "runHook"))

\* The then scopes of the invocation, in order.
ThenOpens == SelectSeq(trace, LAMBDA e : e.ev = "ThenOpen")

\* What a replay that passed the gate runs from the when scope on: Act,
\* AfterAct when installed, Assert, AfterAssert when installed.
OwedAfterGate ==
    <<"WhenOpen", "Act">>
    \o (IF b.hooks.AfterAct # "nil" THEN <<"AfterAct">> ELSE <<>>)
    \o <<"ThenOpen", "Assert">>
    \o (IF b.hooks.AfterAssert # "nil" THEN <<"AfterAssert">> ELSE <<>>)

\* C38: in self-test mode a replay that passed the gate and returned ran
\* Act, AfterAct, Assert and AfterAssert in this order inside its when and
\* then scopes; runHook was handed 'then <Then>' exactly once in it, after
\* the when scope was opened on the context, so the names recorded for it are
\* 'when <When>' and then 'then <Then>'. On a live host runHook is never
\* called and every then scope is opened on the host.
C38_SelfTestRunHook ==
    /\ SelfTest =>
          /\ hookCalls = NamesOf(ThenOpens)
          /\ \A r \in Started :
                (PassesGate(r) /\ Only(r, {"Return"}) # <<>>) =>
                    /\ KindsInOrder(Only(r, {"WhenOpen", "Act", "AfterAct",
                                             "ThenOpen", "Assert",
                                             "AfterAssert"})) = OwedAfterGate
                    /\ Len(Only(r, {"ThenOpen"})) = 1
                    /\ Only(r, {"ThenOpen"})[1].msg = "runHook"
                    /\ Recorded(r) =
                          <<PrefixOf(r) \o WhenWord \o GateLabels(r)[2],
                            ThenWord \o GateLabels(r)[3]>>
    /\ host = "T" =>
          /\ hookCalls = <<>>
          /\ \A k \in DOMAIN ThenOpens : ThenOpens[k].msg = "host"
          /\ \A k \in DOMAIN ThenOpens :
                \E j \in DOMAIN runCalls : runCalls[j] = ThenOpens[k].name

\* A self-test invocation returned with 'then <Then>' handed to runHook once
\* per replay, the hooks after Act and Assert dispatched.
C38_Witness ==
    /\ SelfTest
    /\ pc = "done"
    /\ Len(hookCalls) = Cardinality(Started)
    /\ Cardinality(Started) >= 2
    /\ \A r \in Started :
          /\ PassesGate(r)
          /\ Len(Only(r, {"AfterAct", "AfterAssert"})) = 2
          /\ Len(Recorded(r)) = 2

====
